---- MODULE Spec2Model ----
(***************************************************************************)
(* A model of pyblooming's C implementation: the mmap-backed Bitmap        *)
(* (pyblooming/cbitmap.pyx, pyblooming/cbitmaputil.c) and the classic      *)
(* BloomFilter layered on it (pyblooming/cbloom.pyx).                      *)
(*                                                                         *)
(* Bytes are integers 0..255.  A size_t is a Word: a sequence of eight     *)
(* bytes, least significant first, so that the hash arithmetic keeps its   *)
(* 64-bit width (every operation is modulo 2^64).                          *)
(***************************************************************************)
EXTENDS Integers, Sequences, FiniteSets, TLC

(***************************************************************************)
(* Bounds of the model.                                                    *)
(***************************************************************************)
\* largest Bitmap length, in bytes, that a constructor call is given
MaxSize == 13
\* largest k a BloomFilter constructor call is given
MaxK == 9
\* largest count of a BloomFilter that add is called on
MaxAdds == 2
\* most bits set in a Bitmap that is written directly
MaxRawBits == 2
\* largest Bitmap length, in bytes, whose bits are read and written directly
MaxRawSize == 1

(***************************************************************************)
(* Program constants.                                                      *)
(***************************************************************************)
SIZE_LEN == 8
K_NUM_LEN == 4
WORD_BYTES == 8
ZERO_FILL_CHUNK == 100000

\* BloomFilter.extra_buffer
extra_buffer == SIZE_LEN + K_NUM_LEN

(***************************************************************************)
(* Byte and 64-bit word arithmetic.                                        *)
(***************************************************************************)
Byte == 0..255

Pow2(n) == CASE n = 0 -> 1 [] n = 1 -> 2 [] n = 2 -> 4 [] n = 3 -> 8
             [] n = 4 -> 16 [] n = 5 -> 32 [] n = 6 -> 64 [] n = 7 -> 128
             [] n = 8 -> 256

RECURSIVE BitOp(_, _, _, _)
\* bitwise combination of the low n bits of x and y; op is "and", "or" or "xor"
BitOp(op, x, y, n) ==
    IF n = 0 THEN 0
    ELSE LET a == x % 2
             b == y % 2
             r == CASE op = "and" -> (IF a = 1 /\ b = 1 THEN 1 ELSE 0)
                    [] op = "or"  -> (IF a = 1 \/ b = 1 THEN 1 ELSE 0)
                    [] op = "xor" -> (a + b) % 2
         IN  r + 2 * BitOp(op, x \div 2, y \div 2, n - 1)

ByteAnd(x, y) == BitOp("and", x, y, 8)
ByteOr(x, y)  == BitOp("or", x, y, 8)
ByteXor(x, y) == BitOp("xor", x, y, 8)
\* ~x truncated to an unsigned char
ByteNot(x) == 255 - x

RECURSIVE ToBytes(_, _)
\* little-endian encoding of the natural n in len bytes (struct.pack "<Q", "<I")
ToBytes(n, len) ==
    IF len = 0 THEN <<>> ELSE <<n % 256>> \o ToBytes(n \div 256, len - 1)

RECURSIVE FromBytes(_)
\* the natural a little-endian byte string encodes (struct.unpack "<Q", "<I")
FromBytes(s) ==
    IF s = <<>> THEN 0 ELSE s[1] + 256 * FromBytes(Tail(s))

ToWord(n) == ToBytes(n, WORD_BYTES)

WGet(w, i) == IF i >= 1 /\ i <= WORD_BYTES THEN w[i] ELSE 0

RECURSIVE AddCarry(_, _, _, _)
AddCarry(a, b, i, c) ==
    IF i > WORD_BYTES THEN <<>>
    ELSE LET s == a[i] + b[i] + c
         IN  <<s % 256>> \o AddCarry(a, b, i + 1, s \div 256)

\* a + b modulo 2^64
WAdd(a, b) == AddCarry(a, b, 1, 0)

RECURSIVE XorFrom(_, _, _)
XorFrom(a, b, i) ==
    IF i > WORD_BYTES THEN <<>>
    ELSE <<ByteXor(a[i], b[i])>> \o XorFrom(a, b, i + 1)

\* a xor b
WXor(a, b) == XorFrom(a, b, 1)

RECURSIVE ShlFrom(_, _, _, _)
ShlFrom(a, bs, s, i) ==
    IF i > WORD_BYTES THEN <<>>
    ELSE <<((WGet(a, i - bs) * Pow2(s)) % 256)
             + (WGet(a, i - bs - 1) \div Pow2(8 - s))>>
           \o ShlFrom(a, bs, s, i + 1)

\* a << n modulo 2^64
WShl(a, n) == ShlFrom(a, n \div 8, n % 8, 1)

RECURSIVE ShrFrom(_, _, _, _)
ShrFrom(a, bs, s, i) ==
    IF i > WORD_BYTES THEN <<>>
    ELSE <<(WGet(a, i + bs) \div Pow2(s))
             + ((WGet(a, i + bs + 1) % Pow2(s)) * Pow2(8 - s))>>
           \o ShrFrom(a, bs, s, i + 1)

\* a >> n
WShr(a, n) == ShrFrom(a, n \div 8, n % 8, 1)

RECURSIVE LimbSum(_, _, _, _)
\* sum of a[j] * b[k + 1 - j] for j in i..k
LimbSum(a, b, k, i) ==
    IF i > k THEN 0 ELSE a[i] * b[k + 1 - i] + LimbSum(a, b, k, i + 1)

RECURSIVE MulCarry(_, _, _, _)
MulCarry(a, b, k, c) ==
    IF k > WORD_BYTES THEN <<>>
    ELSE LET s == LimbSum(a, b, k, 1) + c
         IN  <<s % 256>> \o MulCarry(a, b, k + 1, s \div 256)

\* a * b modulo 2^64
WMul(a, b) == MulCarry(a, b, 1, 0)

RECURSIVE ModFrom(_, _, _, _)
ModFrom(w, m, i, r) ==
    IF i = 0 THEN r ELSE ModFrom(w, m, i - 1, (r * 256 + w[i]) % m)

\* w % m for a small positive m
WMod(w, m) == ModFrom(w, m, WORD_BYTES, 0)

(***************************************************************************)
(* BloomFilter._compute_hashes                                             *)
(***************************************************************************)
\* cdef size_t fnv_prime = 0x811C9DC5
fnv_prime == <<197, 157, 28, 129, 0, 0, 0, 0>>
DJB_INIT == 5381
JS_INIT == 1315423911

\* one byte mixed into the four accumulators
MixByte(acc, b) ==
    LET v == ToWord(b) IN
    [djb |-> WAdd(WAdd(WShl(acc.djb, 5), acc.djb), v),
     dek |-> WXor(WXor(WShl(acc.dek, 6), WShr(acc.dek, 27)), v),
     fnv |-> WXor(WMul(acc.fnv, fnv_prime), v),
     js  |-> WXor(acc.js, WAdd(WAdd(WShl(acc.js, 5), v), WShr(acc.js, 2)))]

\* Each intermediate value below is bound by "x \in {e}" rather than passed
\* as an unevaluated argument, so that it is computed once.

RECURSIVE MixBytes(_, _, _)
\* the accumulators after the bytes s[i], s[i+1], ... were mixed in
MixBytes(acc, s, i) ==
    IF i > Len(s) THEN acc
    ELSE CHOOSE r \in {MixBytes(mixed, s, i + 1) :
                          mixed \in {MixByte(acc, s[i])}} : TRUE

\* the accumulators a round starts from; salted is FALSE in round 0
HashInit(key, salted) ==
    [djb |-> ToWord(DJB_INIT),
     dek |-> ToWord(IF salted THEN Len(key) + WORD_BYTES ELSE Len(key)),
     fnv |-> ToWord(0),
     js  |-> ToWord(JS_INIT)]

\* the accumulators at the end of one round: the salt bytes, then the key
HashRound(key, salted, salt) ==
    CHOOSE r \in {MixBytes(start, key, 1) :
                    start \in {IF salted
                               THEN MixBytes(HashInit(key, salted), salt, 1)
                               ELSE HashInit(key, salted)}} : TRUE

\* rounds = k / 4, plus one if (k & 3) > 0
NumRounds(k) == (k \div 4) + (IF k % 4 > 0 THEN 1 ELSE 0)

\* salt = djb_hash ^ dek_hash ^ fnv_hash ^ js_hash
NextSalt(acc) == WXor(WXor(WXor(acc.djb, acc.dek), acc.fnv), acc.js)

RECURSIVE HashRounds(_, _, _, _)
RECURSIVE RoundSlots(_, _, _, _)
\* the slots written by rounds i .. rounds-1
HashRounds(key, i, rounds, salt) ==
    IF i >= rounds THEN <<>>
    ELSE CHOOSE r \in {RoundSlots(key, i, rounds, acc) :
                          acc \in {HashRound(key, i > 0, salt)}} : TRUE

\* the four slots round i copies out, then the later rounds
RoundSlots(key, i, rounds, acc) ==
    <<acc.djb, acc.dek, acc.fnv, acc.js>>
        \o (CHOOSE r \in {HashRounds(key, i + 1, rounds, next) :
                             next \in {NextSalt(acc)}} : TRUE)

\* the scratch buffer after _compute_hashes(key) with self.k_num = k
ComputeHashesRaw(key, k) == HashRounds(key, 0, NumRounds(k), ToWord(0))


\* the keys handed to add and contains (byte strings without NUL)
Keys == {<<97>>, <<102, 111, 111>>}

\* the keys a ScalingBloomFilter call is given: "a", "b" and "c"
SbfKeys == {<<97>>, <<98>>, <<99>>}

\* _compute_hashes runs its rounds in order and round i depends only on the
\* key and on round i-1, so the slots for every k are a prefix of these
HashCache == {<<x, ComputeHashesRaw(x, MaxK)>> : x \in Keys \cup SbfKeys}

\* the scratch buffer self.hashes after _compute_hashes(key), self.k_num = k
ComputeHashes(key, k) ==
    SubSeq((CHOOSE p \in HashCache : p[1] = key)[2], 1, 4 * NumRounds(k))

(***************************************************************************)
(* The operating system: the backing file and stable storage.             *)
(*   file    - the content of "test.mmap" as read and write see it        *)
(*   durable - the content that survives a crash                          *)
(* A MAP_SHARED mapping carries its stores to the file when the kernel    *)
(* writes the pages back, at msync and at munmap; a MAP_PRIVATE mapping   *)
(* never does.  fsync carries the file to stable storage.                 *)
(***************************************************************************)
NULL == <<>>
ANON_FD == -1
FILE_FD == 3

Zeros(n) == [i \in 1..n |-> 0]

Min(a, b) == IF a < b THEN a ELSE b

\* the lengths a Bitmap constructor call is given: none, the small ones whose
\* bits are written directly, the header size and its neighbours, the largest
Sizes == (0..MaxRawSize) \cup {extra_buffer - 1, extra_buffer, MaxSize}

\* the k values a BloomFilter constructor call is given: invalid, one round
\* of hashes, two rounds, and more hashes than the smallest filter has bits
KValues == {0, 1, 2, 5, MaxK}

\* the file after the bytes of a mapping replaced its first Len(m) bytes
Overlay(f, m) ==
    [i \in 1..(IF Len(f) > Len(m) THEN Len(f) ELSE Len(m)) |->
        IF i <= Len(m) THEN m[i] ELSE f[i]]

RECURSIVE ZeroFillLoopWholeChunks(_, _, _, _, _)
\* the zero-fill loop writing a whole chunk in every iteration
ZeroFillLoopWholeChunks(f, length, fails, partial, writes) ==
    LET size_diff == length - Len(f)
        chunk == ZERO_FILL_CHUNK
    IN  IF size_diff > 0
        THEN IF fails = Len(writes) + 1
             THEN [file |-> f \o Zeros(Min(partial, chunk - 1)),
                   writes |-> writes, exc |-> "IOError"]
             ELSE ZeroFillLoopWholeChunks(f \o Zeros(chunk), length, fails,
                                          partial, Append(writes, chunk))
        ELSE [file |-> f, writes |-> writes, exc |-> "none"]

RECURSIVE ZeroFillLoop(_, _, _, _, _)
\* Bitmap.__cinit__, the zero-fill loop from the file f on.  writes holds
\* the sizes of the writes made so far; write number fails (none when 0)
\* raises after partial of its bytes reached the file
ZeroFillLoop(f, length, fails, partial, writes) ==
    LET size_diff == length - Len(f)
        chunk == Min(size_diff, ZERO_FILL_CHUNK)
    IN  IF size_diff > 0
        THEN IF fails = Len(writes) + 1
             THEN [file |-> f \o Zeros(Min(partial, chunk - 1)),
                   writes |-> writes, exc |-> "IOError"]
             ELSE ZeroFillLoop(f \o Zeros(chunk), length, fails, partial,
                               Append(writes, chunk))
        ELSE [file |-> f, writes |-> writes, exc |-> "none"]

\* Bitmap.__cinit__: append zero bytes until the file has length bytes
ZeroFill(f, length) == ZeroFillLoop(f, length, 0, 0, <<>>).file

\* cbitmaputil.c mmap_file: the bytes a fresh mapping shows
mmap_file(filedes, len, f) ==
    IF filedes = ANON_FD THEN Zeros(len) ELSE SubSeq(f, 1, len)

\* MAP_SHARED for every mapping over a file
IsSharedWhenNamed(b) == b.fileno # ANON_FD

\* the mapping is MAP_SHARED over a file
IsShared(b) == b.fileno # ANON_FD /\ b.private = 0

\* cbitmaputil.c mummap_file: the file after munmap of b's mapping
mummap_file(b, f) == IF IsShared(b) THEN Overlay(f, b.mmap) ELSE f

FlushOutcomes == {"ok", "msync_fails", "fsync_fails"}

\* flush with the two system calls in the other order
flushFsyncFirst(b, env, o) ==
    IF b.fileno = ANON_FD
    THEN [res |-> 0, file |-> env.file, durable |-> env.durable,
          calls |-> <<>>]
    ELSE IF o = "fsync_fails"
    THEN [res |-> -1, file |-> env.file, durable |-> env.durable,
          calls |-> <<"fsync">>]
    ELSE LET synced == IF IsShared(b) THEN Overlay(env.file, b.mmap)
                                      ELSE env.file
         IN  [res |-> IF o = "ok" THEN 0 ELSE -1,
              file |-> synced, durable |-> env.file,
              calls |-> <<"fsync", "msync">>]

\* cbitmaputil.c flush, on the environment env = [file, durable]; o is what
\* the system calls do this time
flush(b, env, o) ==
    IF b.fileno = ANON_FD
    THEN [res |-> 0, file |-> env.file, durable |-> env.durable,
          calls |-> <<>>]
    ELSE IF o = "msync_fails"
    THEN [res |-> -1, file |-> env.file, durable |-> env.durable,
          calls |-> <<"msync">>]
    ELSE LET synced == IF IsShared(b) THEN Overlay(env.file, b.mmap)
                                      ELSE env.file
         IN  IF o = "fsync_fails"
             THEN [res |-> -1, file |-> synced, durable |-> env.durable,
                   calls |-> <<"msync", "fsync">>]
             ELSE [res |-> 0, file |-> synced, durable |-> synced,
                   calls |-> <<"msync", "fsync">>]

(***************************************************************************)
(* Bitmap (cbitmap.pyx).  A Bitmap object is a record                      *)
(*   [exists, fileobj, size, fileno, mmap, private]                       *)
(* with fileobj "None" or "open" and mmap NULL or the mapped bytes.       *)
(***************************************************************************)
NoBitmap == [exists |-> FALSE, fileobj |-> "None", size |-> 0,
             fileno |-> ANON_FD, mmap |-> NULL, private |-> 1]

\* Bitmap.__len__
BitmapLen(b) == 8 * b.size

\* one "write" for each of n calls of fileobj.write
Writes(n) == [i \in 1..n |-> "write"]

\* Bitmap.__cinit__ from the zero-filled file on: w is what the zero-fill
\* loop gave and o whether mmap succeeds
BitmapInitMap(length, private, o, w) ==
    IF w.exc # "none"
    THEN [exc |-> w.exc, file |-> w.file,
          obj |-> [exists |-> TRUE, fileobj |-> "open", size |-> length,
                   fileno |-> FILE_FD, mmap |-> NULL, private |-> 0],
          calls |-> <<"open">> \o Writes(Len(w.writes) + 1)]
    ELSE IF o = "mmap_fails"
    THEN [exc |-> "OSError", file |-> w.file,
          obj |-> [exists |-> TRUE, fileobj |-> "closed", size |-> length,
                   fileno |-> FILE_FD, mmap |-> NULL,
                   private |-> IF private THEN 1 ELSE 0],
          calls |-> <<"open">> \o Writes(Len(w.writes))
                        \o <<"mmap", "close">>]
    ELSE [exc |-> "none", file |-> w.file,
          obj |-> [exists |-> TRUE, fileobj |-> "open", size |-> length,
                   fileno |-> FILE_FD,
                   mmap |-> mmap_file(FILE_FD, length, w.file),
                   private |-> IF private THEN 1 ELSE 0],
          calls |-> <<"open">> \o Writes(Len(w.writes)) \o <<"mmap">>]

\* __cinit__ mapping the file before it zero-fills it
BitmapInitMapsFirst(length, named, private, o, fails, partial, f) ==
    IF length <= 0
    THEN [exc |-> "ValueError", file |-> f, obj |-> NoBitmap, calls |-> <<>>]
    ELSE IF ~named
    THEN [exc |-> IF o = "mmap_fails" THEN "OSError" ELSE "none", file |-> f,
          obj |-> [exists |-> TRUE, fileobj |-> "None", size |-> length,
                   fileno |-> ANON_FD,
                   mmap |-> IF o = "mmap_fails" THEN NULL
                            ELSE mmap_file(ANON_FD, length, f),
                   private |-> 1],
          calls |-> <<"mmap">>]
    ELSE IF o = "mmap_fails"
    THEN BitmapInitMap(length, private, o,
                       [exc |-> "none", file |-> f, writes |-> <<>>])
    ELSE CHOOSE r \in
         {[exc |-> w.exc, file |-> w.file,
           obj |-> [exists |-> TRUE, fileobj |-> "open", size |-> length,
                    fileno |-> FILE_FD,
                    mmap |-> mmap_file(FILE_FD, length,
                                       ZeroFill(w.file, length)),
                    private |-> IF private THEN 1 ELSE 0],
           calls |-> <<"open", "mmap">> \o
                     Writes(Len(w.writes) +
                            (IF w.exc = "none" THEN 0 ELSE 1))] :
             w \in {ZeroFillLoop(f, length, fails, partial, <<>>)}} : TRUE

\* Bitmap.__cinit__(length, filename, private) over the file f: the
\* exception raised, the file, the object as __cinit__ left it and the calls
\* made.  o is whether mmap succeeds, and write number fails (none when 0)
\* raises after partial bytes
BitmapInit(length, named, private, o, fails, partial, f) ==
    IF length <= 0
    THEN [exc |-> "ValueError", file |-> f, obj |-> NoBitmap, calls |-> <<>>]
    ELSE IF ~named
    THEN \* anonymous maps always use MAP_PRIVATE
         [exc |-> IF o = "mmap_fails" THEN "OSError" ELSE "none", file |-> f,
          obj |-> [exists |-> TRUE, fileobj |-> "None", size |-> length,
                   fileno |-> ANON_FD,
                   mmap |-> IF o = "mmap_fails" THEN NULL
                            ELSE mmap_file(ANON_FD, length, f),
                   private |-> 1],
          calls |-> <<"mmap">>]
    ELSE BitmapInitMap(length, private, o,
                       ZeroFillLoop(f, length, fails, partial, <<>>))

\* the Bitmap whose __cinit__ raised is deallocated: the reference to
\* fileobj goes, which closes a file that is still open, and nothing unmaps
\* a mapping.  The calls made and the number of mappings left behind
BitmapDealloc(obj) ==
    [calls |-> IF obj.fileobj = "open" THEN <<"close">> ELSE <<>>,
     mappings |-> IF obj.mmap # NULL THEN 1 ELSE 0]

\* __getitem__ counting the bits of a byte from the least significant one
BitmapGetLsbFirst(b, idx) ==
    ByteAnd(b.mmap[(idx \div 8) + 1] \div Pow2(idx % 8), 1)

\* Bitmap.__getitem__: (mmap[idx >> 3] >> (7 - idx % 8)) & 0x1
BitmapGet(b, idx) ==
    ByteAnd(b.mmap[(idx \div 8) + 1] \div Pow2(7 - (idx % 8)), 1)

\* __setitem__ counting the bits of a byte from the least significant one
BitmapSetLsbFirst(b, idx, val) ==
    LET byte == b.mmap[(idx \div 8) + 1]
        mask == Pow2(idx % 8)
    IN  [b EXCEPT !.mmap[(idx \div 8) + 1] =
            IF val # 0 THEN ByteOr(byte, mask)
                       ELSE ByteAnd(byte, ByteNot(mask))]

\* Bitmap.__setitem__: the mapped bytes after self[idx] = val
BitmapSet(b, idx, val) ==
    LET byte == b.mmap[(idx \div 8) + 1]
        mask == Pow2(7 - (idx % 8))
    IN  [b EXCEPT !.mmap[(idx \div 8) + 1] =
            IF val # 0 THEN ByteOr(byte, mask)
                       ELSE ByteAnd(byte, ByteNot(mask))]

\* Bitmap.__getslice__: the bytes, or the exception raised
BitmapGetSlice(b, i, j) ==
    IF i >= j \/ i < 0 \/ j > b.size
    THEN [exc |-> "ValueError", val |-> <<>>]
    ELSE [exc |-> "none", val |-> SubSeq(b.mmap, i + 1, j)]

\* Bitmap.__setslice__: the object after self[i:j] = val, or the exception
BitmapSetSlice(b, i, j, val) ==
    IF i >= j \/ i < 0 \/ j > b.size
    THEN [exc |-> "ValueError", bm |-> b]
    ELSE [exc |-> "none",
          bm |-> [b EXCEPT !.mmap =
                    [x \in 1..Len(b.mmap) |->
                        IF x > i /\ x <= j THEN val[x - i] ELSE b.mmap[x]]]]

\* Bitmap.flush that only flushes the Python file object
BitmapFlushNoSync(b, env, o) ==
    [exc |-> "none", file |-> env.file, durable |-> env.durable,
     calls |-> <<>>]

\* Bitmap.flush on the environment env; the result carries the exception
BitmapFlush(b, env, o) ==
    IF b.mmap # NULL
    THEN LET r == flush(b, env, o)
         IN  [exc |-> IF r.res = -1 THEN "OSError" ELSE "none",
              file |-> r.file, durable |-> r.durable, calls |-> r.calls]
    ELSE [exc |-> "none", file |-> env.file, durable |-> env.durable,
          calls |-> <<>>]

\* Bitmap.close without the tests of self.mmap and self.fileobj
BitmapCloseAlways(b, env, doFlush, o) ==
    LET fl == IF doFlush THEN BitmapFlush(b, env, o)
              ELSE [exc |-> "none", file |-> env.file,
                    durable |-> env.durable, calls |-> <<>>]
    IN  IF fl.exc # "none"
        THEN [exc |-> fl.exc, bm |-> b, file |-> fl.file,
              durable |-> fl.durable, calls |-> fl.calls]
        ELSE [exc |-> "none",
              bm |-> [b EXCEPT !.mmap = NULL, !.fileobj = "None"],
              file |-> IF b.mmap # NULL THEN mummap_file(b, fl.file)
                                        ELSE fl.file,
              durable |-> fl.durable,
              calls |-> fl.calls \o <<"munmap", "close">>]

\* Bitmap.close(flush): the object, the environment and the calls made
BitmapClose(b, env, doFlush, o) ==
    LET fl == IF doFlush THEN BitmapFlush(b, env, o)
              ELSE [exc |-> "none", file |-> env.file,
                    durable |-> env.durable, calls |-> <<>>]
    IN  IF fl.exc # "none"
        THEN [exc |-> fl.exc, bm |-> b, file |-> fl.file,
              durable |-> fl.durable, calls |-> fl.calls]
        ELSE LET unmapped == b.mmap # NULL
                 closed == b.fileobj # "None"
             IN  [exc |-> "none",
                  bm |-> [b EXCEPT !.mmap = NULL, !.fileobj = "None"],
                  file |-> IF unmapped THEN mummap_file(b, fl.file)
                                       ELSE fl.file,
                  durable |-> fl.durable,
                  calls |-> fl.calls
                      \o (IF unmapped THEN <<"munmap">> ELSE <<>>)
                      \o (IF closed THEN <<"close">> ELSE <<>>)]


(***************************************************************************)
(* BloomFilter (cbloom.pyx).  A BloomFilter object is a record             *)
(*   [exists, bitmap, k_num, bitmap_size, count, offset, hashes,          *)
(*    allocated]                                                          *)
(* with bitmap "bitmap" (the Bitmap it was built over) or "None", hashes  *)
(* the slots written to the scratch buffer and allocated its size.        *)
(***************************************************************************)
NoFilter == [exists |-> FALSE, bitmap |-> "None", k_num |-> 0,
             bitmap_size |-> 0, count |-> 0, offset |-> 0, hashes |-> <<>>,
             allocated |-> 0]

\* the scratch buffer of the earlier implementation, malloc(k * sizeof(...)):
\* one slot for each hash the caller asked for
HashesAllocatedForCallerK(k_num, k) == k

\* malloc(self.k_num*8*sizeof(size_t)): the size_t slots of the scratch
\* buffer of a filter whose k is k_num, constructed with the argument k
HashesAllocated(k_num, k) == (k_num * 8 * WORD_BYTES) \div WORD_BYTES

\* the filter holds its Bitmap: it was constructed and not closed
Live(f) == f.exists /\ f.bitmap = "bitmap"

\* _read_count that unpacks the bytes of the k field
ReadCountFromKField(b, bitmap_size) ==
    LET size_offset == (bitmap_size \div 8) + SIZE_LEN
    IN  FromBytes(BitmapGetSlice(b, size_offset, size_offset + K_NUM_LEN).val)

\* BloomFilter._read_count: struct.unpack("<Q", bitmap[o:o+SIZE_LEN])
ReadCount(b, bitmap_size) ==
    LET size_offset == bitmap_size \div 8
    IN  FromBytes(BitmapGetSlice(b, size_offset, size_offset + SIZE_LEN).val)

\* BloomFilter._read_k_num: struct.unpack("<I", bitmap[o:o+K_NUM_LEN])
ReadKNum(b, bitmap_size) ==
    LET size_offset == (bitmap_size \div 8) + SIZE_LEN
    IN  FromBytes(BitmapGetSlice(b, size_offset, size_offset + K_NUM_LEN).val)

\* BloomFilter._write_k_num: store the packed k, then flush the Bitmap
WriteKNum(b, bitmap_size, k_num, env, o) ==
    LET size_offset == (bitmap_size \div 8) + SIZE_LEN
        knum_str == ToBytes(k_num, K_NUM_LEN)
        w == BitmapSetSlice(b, size_offset, size_offset + K_NUM_LEN, knum_str)
        fl == BitmapFlush(w.bm, env, o)
    IN  [exc |-> fl.exc, bm |-> w.bm, file |-> fl.file,
         durable |-> fl.durable, calls |-> fl.calls]

\* BloomFilter.__cinit__ raising e before it touched the Bitmap
BloomInitRaise(b, env, e) ==
    [exc |-> e, bf |-> NoFilter, bm |-> b, file |-> env.file,
     durable |-> env.durable, calls |-> <<>>]

\* __cinit__ that installs the caller's k whatever the header holds
BloomInitCallerK(b, env, k, o) ==
    LET py_size == BitmapLen(b) - 8 * extra_buffer
    IN  IF k < 1 THEN BloomInitRaise(b, env, "ValueError")
        ELSE IF py_size < 0 THEN BloomInitRaise(b, env, "OverflowError")
        ELSE IF py_size <= 0 THEN BloomInitRaise(b, env, "ValueError")
        ELSE LET w == WriteKNum(b, py_size, k, env, o)
             IN  IF w.exc # "none"
                 THEN [exc |-> w.exc, bf |-> NoFilter, bm |-> w.bm,
                       file |-> w.file, durable |-> w.durable,
                       calls |-> w.calls]
                 ELSE [exc |-> "none",
                       bf |-> [exists |-> TRUE, bitmap |-> "bitmap",
                               k_num |-> k, bitmap_size |-> py_size,
                               count |-> ReadCount(w.bm, py_size),
                               offset |-> py_size \div k,
                               hashes |-> <<>>,
                               allocated |-> HashesAllocated(k, k)],
                       bm |-> w.bm, file |-> w.file, durable |-> w.durable,
                       calls |-> w.calls]

\* BloomFilter.__cinit__(bitmap, k) over the open Bitmap b
BloomInit(b, env, k, o) ==
    LET \* len(bitmap) - 8*self.extra_buffer(), a Python integer
        py_size == BitmapLen(b) - 8 * extra_buffer
    IN  IF k < 1 THEN BloomInitRaise(b, env, "ValueError")
        \* a negative Python integer does not convert to size_t
        ELSE IF py_size < 0 THEN BloomInitRaise(b, env, "OverflowError")
        ELSE IF py_size <= 0 THEN BloomInitRaise(b, env, "ValueError")
        ELSE LET stored == ReadKNum(b, py_size)
                 w == IF stored = 0
                      THEN WriteKNum(b, py_size, k, env, o)
                      ELSE [exc |-> "none", bm |-> b, file |-> env.file,
                            durable |-> env.durable, calls |-> <<>>]
                 k_num == IF stored = 0 THEN k ELSE stored
             IN  IF w.exc # "none"
                 THEN [exc |-> w.exc, bf |-> NoFilter, bm |-> w.bm,
                       file |-> w.file, durable |-> w.durable,
                       calls |-> w.calls]
                 ELSE [exc |-> "none",
                       bf |-> [exists |-> TRUE, bitmap |-> "bitmap",
                               k_num |-> k_num, bitmap_size |-> py_size,
                               count |-> ReadCount(w.bm, py_size),
                               offset |-> py_size \div k_num,
                               hashes |-> <<>>,
                               allocated |-> HashesAllocated(k_num, k)],
                       bm |-> w.bm, file |-> w.file, durable |-> w.durable,
                       calls |-> w.calls]

RECURSIVE ContainsLoop(_, _, _, _)
\* the loop of __contains__ from slot i on: FALSE at the first zero bit
ContainsLoop(f, b, slots, i) ==
    IF i >= f.k_num THEN TRUE
    ELSE IF BitmapGet(b, i * f.offset + WMod(slots[i + 1], f.offset)) = 0
         THEN FALSE
         ELSE ContainsLoop(f, b, slots, i + 1)

\* __contains__ that computes each hash when its slot is probed, so that
\* the slots behind the first zero bit stay empty
BloomContainsLazyHashes(f, b, key) ==
    LET full == ComputeHashes(key, f.k_num)
    IN  IF f.offset = 0
        THEN [exc |-> "ZeroDivisionError", val |-> FALSE, hashes |-> full]
        ELSE IF f.bitmap = "None"
        THEN [exc |-> "TypeError", val |-> FALSE, hashes |-> full]
        ELSE LET zeroAt == {i \in 0..(f.k_num - 1) :
                               BitmapGet(b, i * f.offset
                                            + WMod(full[i + 1], f.offset)) = 0}
                 first == IF zeroAt = {} THEN f.k_num
                          ELSE CHOOSE i \in zeroAt : \A j \in zeroAt : i <= j
             IN  [exc |-> "none", val |-> zeroAt = {},
                  hashes |-> [i \in 1..Len(full) |->
                                 IF i <= first + 1 THEN full[i]
                                 ELSE ToWord(0)]]

\* BloomFilter.__contains__(key): the result and the scratch buffer it leaves
BloomContains(f, b, key) ==
    LET hashes == ComputeHashes(key, f.k_num)
    IN  IF f.offset = 0
        THEN [exc |-> "ZeroDivisionError", val |-> FALSE, hashes |-> hashes]
        ELSE IF f.bitmap = "None"
        THEN [exc |-> "TypeError", val |-> FALSE, hashes |-> hashes]
        ELSE [exc |-> "none", val |-> ContainsLoop(f, b, hashes, 0),
              hashes |-> hashes]

RECURSIVE SetLoopUnpartitioned(_, _, _, _)
\* the loop of add with the hash taken modulo the whole bit count
SetLoopUnpartitioned(f, b, slots, i) ==
    IF i >= f.k_num THEN b
    ELSE SetLoopUnpartitioned(f,
             BitmapSet(b, i * f.offset + WMod(slots[i + 1], f.bitmap_size),
                       1),
             slots, i + 1)

RECURSIVE SetLoop(_, _, _, _)
\* the loop of add from slot i on: the Bitmap with the k bits set
SetLoop(f, b, slots, i) ==
    IF i >= f.k_num THEN b
    ELSE SetLoop(f,
                 BitmapSet(b, i * f.offset + WMod(slots[i + 1], f.offset), 1),
                 slots, i + 1)

\* the part of add that sets the bits of the key without counting it
BloomAddNoCount(f, b, hashes) ==
    [exc |-> "none", val |-> TRUE, bf |-> [f EXCEPT !.hashes = hashes],
     bm |-> SetLoop(f, b, hashes, 0)]

\* the part of add that counts the key without setting its bits
BloomAddCountOnly(f, b, hashes) ==
    [exc |-> "none", val |-> TRUE,
     bf |-> [f EXCEPT !.hashes = hashes, !.count = f.count + 1], bm |-> b]

\* the part of add after the hashes are in the scratch buffer
BloomAddBits(f, b, hashes) ==
    IF f.offset = 0
    THEN [exc |-> "ZeroDivisionError", val |-> FALSE,
          bf |-> [f EXCEPT !.hashes = hashes], bm |-> b]
    ELSE IF f.bitmap = "None"
    THEN [exc |-> "TypeError", val |-> FALSE,
          bf |-> [f EXCEPT !.hashes = hashes], bm |-> b]
    ELSE [exc |-> "none", val |-> TRUE,
          bf |-> [f EXCEPT !.hashes = hashes, !.count = f.count + 1],
          bm |-> SetLoop(f, b, hashes, 0)]

\* add that sets the bits without looking at check_first
BloomAddUnchecked(f, b, key, check_first) ==
    BloomAddBits(f, b, ComputeHashes(key, f.k_num))

\* add that counts a key the filter already reports
BloomAddCountsMembers(f, b, key, check_first) ==
    LET c == BloomContains(f, b, key)
    IN  IF c.exc = "none" /\ c.val
        THEN [exc |-> "none", val |-> FALSE,
              bf |-> [f EXCEPT !.hashes = c.hashes, !.count = f.count + 1],
              bm |-> b]
        ELSE BloomAddBits(f, b, c.hashes)

\* BloomFilter.add(key, check_first)
BloomAdd(f, b, key, check_first) ==
    IF check_first # 0
    THEN LET c == BloomContains(f, b, key)
         IN  IF c.exc # "none"
             THEN [exc |-> c.exc, val |-> FALSE,
                   bf |-> [f EXCEPT !.hashes = c.hashes], bm |-> b]
             ELSE IF c.val
             THEN [exc |-> "none", val |-> FALSE,
                   bf |-> [f EXCEPT !.hashes = c.hashes], bm |-> b]
             \* the loop reads the buffer that __contains__ left
             ELSE BloomAddBits(f, b, c.hashes)
    ELSE BloomAddBits(f, b, ComputeHashes(key, f.k_num))

\* BloomFilter.flush that packs the count into the first bytes of the Bitmap
BloomFlushCountAtStart(f, b, env, o) ==
    IF f.bitmap = "None"
    THEN [exc |-> "none", bm |-> b, file |-> env.file,
          durable |-> env.durable, calls |-> <<>>]
    ELSE LET w == BitmapSetSlice(b, 0, SIZE_LEN, ToBytes(f.count, SIZE_LEN))
             fl == BitmapFlush(w.bm, env, o)
         IN  [exc |-> fl.exc, bm |-> w.bm, file |-> fl.file,
              durable |-> fl.durable, calls |-> fl.calls]

\* BloomFilter.flush that flushes the Bitmap but leaves the header alone
BloomFlushCountNotStored(f, b, env, o) ==
    IF f.bitmap = "None"
    THEN [exc |-> "none", bm |-> b, file |-> env.file,
          durable |-> env.durable, calls |-> <<>>]
    ELSE LET fl == BitmapFlush(b, env, o)
         IN  [exc |-> fl.exc, bm |-> b, file |-> fl.file,
              durable |-> fl.durable, calls |-> fl.calls]

\* BloomFilter.flush: pack the count into the header, flush the Bitmap
BloomFlush(f, b, env, o) ==
    IF f.bitmap = "None"
    THEN [exc |-> "none", bm |-> b, file |-> env.file,
          durable |-> env.durable, calls |-> <<>>]
    ELSE LET count_str == ToBytes(f.count, SIZE_LEN)
             size_offset == f.bitmap_size \div 8
             w == BitmapSetSlice(b, size_offset, size_offset + SIZE_LEN,
                                 count_str)
             fl == BitmapFlush(w.bm, env, o)
         IN  [exc |-> fl.exc, bm |-> w.bm, file |-> fl.file,
              durable |-> fl.durable, calls |-> fl.calls]

\* BloomFilter.close: flush, close the Bitmap (which flushes again), drop it
BloomClose(f, b, env, o1, o2) ==
    IF f.bitmap = "None"
    THEN [exc |-> "none", bf |-> f, bm |-> b, file |-> env.file,
          durable |-> env.durable, calls |-> <<>>]
    ELSE LET fl == BloomFlush(f, b, env, o1)
         IN  IF fl.exc # "none"
             THEN [exc |-> fl.exc, bf |-> f, bm |-> fl.bm, file |-> fl.file,
                   durable |-> fl.durable, calls |-> fl.calls]
             ELSE LET cl == BitmapClose(fl.bm,
                                [file |-> fl.file, durable |-> fl.durable],
                                TRUE, o2)
                  IN  [exc |-> cl.exc,
                       bf |-> IF cl.exc = "none"
                              THEN [f EXCEPT !.bitmap = "None"] ELSE f,
                       bm |-> cl.bm, file |-> cl.file,
                       durable |-> cl.durable,
                       calls |-> fl.calls \o cl.calls]


(***************************************************************************)
(* Capacity arithmetic of BloomFilter.  Probabilities are fractions        *)
(* <<numerator, denominator>> in lowest terms; logarithms are in           *)
(* millionths.                                                              *)
(***************************************************************************)
MICRO == 1000000
\* math.log(2) and math.log(2)**2, in millionths
LN2_MICRO == 693147
LN2SQ_MICRO == 480453

\* -math.log(p), in millionths, of the probabilities given to the layers
NegLnTable ==
    {<<<<1, 20>>, 2995732>>, <<<<9, 200>>, 3101093>>,
     <<<<81, 2000>>, 3206453>>, <<<<729, 20000>>, 3311814>>,
     <<<<6561, 200000>>, 3417174>>}

NegLn(p) == (CHOOSE e \in NegLnTable : e[1] = p)[2]

\* math.ceil(a / b) of positive integers
CeilDiv(a, b) == (a + b - 1) \div b

\* int(math.ceil(-capacity * math.log(prob) / math.log(2) ** 2))
required_bits(capacity, prob) == CeilDiv(capacity * NegLn(prob), LN2SQ_MICRO)

\* required_bytes that rounds the bits down to whole bytes
required_bytes_truncated(capacity, prob) == required_bits(capacity, prob) \div 8

\* int(math.ceil(required_bits(capacity, prob) / 8.0))
required_bytes(capacity, prob) == CeilDiv(required_bits(capacity, prob), 8)

\* int(math.ceil(ideal_k(bits, capacity)))
ideal_k(bits, capacity) == CeilDiv(LN2_MICRO * bits, capacity * MICRO)

\* <<bytes, k>>
params_for_capacity(capacity, prob) ==
    <<required_bytes(capacity, prob) + extra_buffer,
      ideal_k(8 * required_bytes(capacity, prob), capacity)>>

RECURSIVE GCD(_, _)
GCD(a, b) == IF b = 0 THEN a ELSE GCD(b, a % b)

\* the fraction n / d in lowest terms
Frac(n, d) == <<n \div GCD(n, d), d \div GCD(n, d)>>

FracMul(x, y) == Frac(x[1] * y[1], x[2] * y[2])

\* 1 - x
FracCompl(x) == Frac(x[2] - x[1], x[2])

(***************************************************************************)
(* The ScalingBloomFilter: an ordered sequence of layers, oldest first,    *)
(* each a BloomFilter over its own Bitmap with the capacity and the target *)
(* probability it was made for.                                            *)
(***************************************************************************)
\* the arguments a ScalingBloomFilter constructor call is given
InitialCapacities == {1, 2}
ScaleSizes == {2, 4}
Prob == <<1, 2>>
ScaleProb == <<9, 10>>

NoSBF ==
    [exists |-> FALSE, filters |-> <<>>, initial_capacity |-> 0,
     prob |-> Prob, scale_size |-> 0, scale_prob |-> ScaleProb,
     factory |-> FALSE]

\* the Bitmap of a new layer: anonymous, or on the fresh file that the factory
\* names
SbfBitmap(size, factory) ==
    IF factory
    THEN [exists |-> TRUE, fileobj |-> "open", size |-> size,
          fileno |-> FILE_FD,
          mmap |-> mmap_file(FILE_FD, size, ZeroFill(<<>>, size)),
          private |-> 0]
    ELSE [exists |-> TRUE, fileobj |-> "None", size |-> size,
          fileno |-> ANON_FD, mmap |-> mmap_file(ANON_FD, size, <<>>),
          private |-> 1]

\* the layer that the constructed BloomFilter made and its Bitmap form
SbfLayerOf(capacity, prob, made) ==
    [bf |-> made.bf, bm |-> made.bm, capacity |-> capacity, prob |-> prob]

\* a layer of pr = <<bytes, k>>: BloomFilter(Bitmap(bytes), k)
SbfLayerSized(capacity, prob, factory, pr) ==
    SbfLayerOf(capacity, prob,
               BloomInit(SbfBitmap(pr[1], factory),
                         [file |-> IF factory THEN ZeroFill(<<>>, pr[1])
                                   ELSE <<>>,
                          durable |-> <<>>],
                         pr[2], "ok"))

\* a layer for capacity keys at probability prob: a Bitmap of the size
\* params_for_capacity gives and a BloomFilter with the ideal k over it
SbfNewLayer(capacity, prob, factory) ==
    SbfLayerSized(capacity, prob, factory,
                  params_for_capacity(capacity, prob))

\* ScalingBloomFilter(initial_capacity, prob, scale_size, scale_prob,
\* bitmap_factory): layer 0 at probability prob * (1 - scale_prob)
SbfInit(initial_capacity, prob, scale_size, scale_prob, factory) ==
    [exists |-> TRUE,
     filters |-> <<SbfNewLayer(initial_capacity,
                               FracMul(prob, FracCompl(scale_prob)),
                               factory)>>,
     initial_capacity |-> initial_capacity, prob |-> prob,
     scale_size |-> scale_size, scale_prob |-> scale_prob,
     factory |-> factory]

\* the rest of sbf.add after the newest layer's add gave r: keep what it
\* wrote, and grow when it returned True and the layer is full
SbfGrow(s, newest, r) ==
    [exc |-> r.exc, val |-> r.val,
     grew |-> (r.exc = "none" /\ r.val /\ r.bf.count >= newest.capacity),
     sbf |-> [s EXCEPT !.filters =
                IF r.exc = "none" /\ r.val /\ r.bf.count >= newest.capacity
                THEN Append([s.filters EXCEPT
                               ![Len(s.filters)] =
                                  [newest EXCEPT !.bf = r.bf, !.bm = r.bm]],
                            SbfNewLayer(newest.capacity * s.scale_size,
                                        FracMul(newest.prob, s.scale_prob),
                                        s.factory))
                ELSE [s.filters EXCEPT
                        ![Len(s.filters)] =
                           [newest EXCEPT !.bf = r.bf, !.bm = r.bm]]]]

\* the newest layer's add(key, check_first=True), then SbfGrow
SbfAddTo(s, newest, key) ==
    SbfGrow(s, newest, BloomAdd(newest.bf, newest.bm, key, 1))

\* sbf.add(key)
SbfAdd(s, key) == SbfAddTo(s, s.filters[Len(s.filters)], key)

RECURSIVE SbfProbe(_, _, _)
\* the probes after layer i answered c: found, or go on with the older layers
SbfProbed(filters, key, i, c) ==
    IF c.val
    THEN [val |-> TRUE, filters |-> [filters EXCEPT ![i].bf.hashes = c.hashes]]
    ELSE SbfProbe([filters EXCEPT ![i].bf.hashes = c.hashes], key, i - 1)

\* key in sbf, from layer i down to the oldest: the answer, and the layers
\* with the hash buffers the probes left
SbfProbe(filters, key, i) ==
    IF i = 0 THEN [val |-> FALSE, filters |-> filters]
    ELSE SbfProbed(filters, key, i,
                   BloomContains(filters[i].bf, filters[i].bm, key))

\* key in sbf
SbfContains(s, key) == SbfProbe(s.filters, key, Len(s.filters))

RECURSIVE SbfLenFrom(_, _)
\* the sum of the counts of layers i and older
SbfLenFrom(filters, i) ==
    IF i = 0 THEN 0
    ELSE filters[i].bf.count + SbfLenFrom(filters, i - 1)

\* len(sbf)
SbfLen(s) == SbfLenFrom(s.filters, Len(s.filters))

RECURSIVE SbfCapacityFrom(_, _)
\* the sum of the capacities of layers i and older
SbfCapacityFrom(filters, i) ==
    IF i = 0 THEN 0
    ELSE filters[i].capacity + SbfCapacityFrom(filters, i - 1)

\* sbf.total_capacity()
SbfTotalCapacity(s) == SbfCapacityFrom(s.filters, Len(s.filters))

(***************************************************************************)
(* State.                                                                  *)
(*   file, durable - the backing file and its content on stable storage   *)
(*   bm, bf        - the Bitmap and the BloomFilter the program holds     *)
(*   ret           - the last call: its arguments, its result or the      *)
(*                   exception it raised, and the system calls it made    *)
(*   passed        - keys passed to add on this BloomFilter instance      *)
(*   added         - keys whose add on this instance returned             *)
(*   trueAdds      - adds on this instance that returned True             *)
(*   initCount     - the count this instance read at construction         *)
(*   saved         - what the last closed file-backed filter held         *)
(***************************************************************************)
VARIABLES file, durable, bm, bf, ret, passed, added, trueAdds, initCount,
          saved, sbf, factoryCalls, sbfPassed, sbfRepeated, sbfTrueAdds,
          gil, pc

\* the ScalingBloomFilter, the calls of its bitmap factory, and the history
\* of its add calls: the keys passed, whether one was passed twice, and how
\* many calls returned True
sbfVars == <<sbf, factoryCalls, sbfPassed, sbfRepeated, sbfTrueAdds>>

\* the Bitmap and the BloomFilter that are used directly, and their history
directVars == <<file, durable, bm, bf, passed, added, trueAdds, initCount,
                saved>>

\* the thread that holds the global interpreter lock (0 when it is free) and
\* where each thread is: running Python code, or at a step of Bitmap.flush
\* with the result of the C flush
threadVars == <<gil, pc>>

vars == <<file, durable, bm, bf, ret, passed, added, trueAdds, initCount,
          saved, sbf, factoryCalls, sbfPassed, sbfRepeated, sbfTrueAdds,
          gil, pc>>

\* the threads of the interpreter
Threads == 1..2

Running == [at |-> "run", flushres |-> 0]

NoKey == <<>>

\* arg is the integer argument of the call: an index, a k or check_first
Ret(op, key, arg, val, exc, calls, closedBefore) ==
    [op |-> op, key |-> key, arg |-> arg, val |-> val, exc |-> exc,
     calls |-> calls, closedBefore |-> closedBefore]

NoSaved == [valid |-> FALSE, size |-> 0, shared |-> FALSE, k_num |-> 0,
            count |-> 0, keys |-> {}]

Env == [file |-> file, durable |-> durable]

\* the header of b holds a count and a k that the model can represent
HeaderReadable(b) ==
    b.size > extra_buffer =>
        LET base == b.size - extra_buffer
        IN  /\ \A i \in (base + 4)..(base + SIZE_LEN) : b.mmap[i] = 0
            /\ \A i \in (base + SIZE_LEN + 2)..b.size : b.mmap[i] = 0
            /\ b.mmap[base + SIZE_LEN + 1] <= MaxK

Init ==
    /\ file = <<>>
    /\ durable = <<>>
    /\ bm = NoBitmap
    /\ bf = NoFilter
    /\ ret = Ret("init", NoKey, 0, 0, "none", <<>>, FALSE)
    /\ passed = {}
    /\ added = {}
    /\ trueAdds = 0
    /\ initCount = 0
    /\ saved = NoSaved
    /\ sbf = NoSBF
    /\ factoryCalls = 0
    /\ sbfPassed = {}
    /\ sbfRepeated = FALSE
    /\ sbfTrueAdds = 0
    /\ gil = 1
    /\ pc = [t \in Threads |-> Running]

\* the outcomes o1 and o2 are of system calls that b can make: nothing fails
\* for an anonymous or unmapped Bitmap, nor after an earlier failure
SysCallsFail(b, o1, o2) ==
    /\ (b.mmap = NULL \/ b.fileno = ANON_FD) => o1 = "ok"
    /\ o1 # "ok" => o2 = "ok"

(***************************************************************************)
(* Bitmap operations.  The program holds one Bitmap at a time and, while a *)
(* BloomFilter holds it, reaches it only through the BloomFilter.          *)
(***************************************************************************)

\* what a call Bitmap(length, ...) that went as r leaves: the file, the
\* Bitmap unless __cinit__ raised, and then the object deallocated
BitmapInitDone(r, length) ==
    \E d \in {BitmapDealloc(r.obj)} :
        /\ file' = r.file
        /\ bm' = IF r.exc = "none" THEN r.obj ELSE bm
        /\ ret' = IF r.exc = "none"
                  THEN Ret("bm_new", NoKey, length, 0, r.exc, r.calls, FALSE)
                  ELSE Ret("bm_new", NoKey, length, d.mappings, r.exc,
                           r.calls \o d.calls, FALSE)

\* Bitmap(length, filename, private); mapped is whether mmap succeeds
NewBitmap(length, named, private, mapped) ==
    /\ UNCHANGED <<sbfVars, threadVars>>
    /\ ~Live(bf)
    /\ bm.mmap = NULL
    \* private only matters with a file name, nothing matters for a bad length
    /\ ~named => ~private
    /\ length <= 0 => ~named /\ mapped
    \* anonymous maps are exercised while the file does not exist yet, and
    \* an existing file is mapped again at the length it has
    /\ ~named => file = <<>>
    /\ file = <<>> \/ length = Len(file)
    \* the program drops the filter it closed before it opens the next Bitmap
    /\ bf' = NoFilter
    /\ passed' = {}
    /\ added' = {}
    /\ trueAdds' = 0
    /\ initCount' = 0
    /\ UNCHANGED <<durable, saved>>
    /\ \E r \in {BitmapInit(length, named, private,
                            IF mapped THEN "ok" ELSE "mmap_fails", 0, 0,
                            file)} :
           BitmapInitDone(r, length)

\* bitmap[idx]
BitmapGetItem(idx) ==
    /\ UNCHANGED <<sbfVars, threadVars>>
    /\ bm.mmap # NULL
    /\ ~Live(bf)
    /\ bm.size <= MaxRawSize
    /\ idx < BitmapLen(bm)
    /\ ret' = Ret("bm_get", NoKey, idx, BitmapGet(bm, idx), "none", <<>>,
                  FALSE)
    /\ UNCHANGED <<file, durable, bm, bf, passed, added, trueAdds, initCount,
                   saved>>

RECURSIVE OnesIn(_)
\* number of 1 bits of the natural b
OnesIn(b) == IF b = 0 THEN 0 ELSE (b % 2) + OnesIn(b \div 2)

RECURSIVE SetBits(_)
\* number of 1 bits of the byte string m
SetBits(m) == IF m = <<>> THEN 0 ELSE OnesIn(Head(m)) + SetBits(Tail(m))

\* bitmap[idx] = val
BitmapSetItem(idx, val) ==
    /\ UNCHANGED <<sbfVars, threadVars>>
    /\ bm.mmap # NULL
    /\ ~Live(bf)
    /\ bm.size <= MaxRawSize
    /\ idx < BitmapLen(bm)
    \* a file-backed map is written while it is all zero, an anonymous one
    \* while fewer than MaxRawBits of its bits are set
    /\ bm.fileno # ANON_FD => SetBits(bm.mmap) = 0
    /\ SetBits(bm.mmap) < MaxRawBits \/ val = 0
    /\ bm' = BitmapSet(bm, idx, val)
    /\ ret' = Ret("bm_set", NoKey, idx, val, "none", <<>>, FALSE)
    /\ saved' = NoSaved
    /\ UNCHANGED <<file, durable, bf, passed, added, trueAdds, initCount>>

\* bitmap.flush()
BitmapFlushOp(o) ==
    /\ UNCHANGED <<sbfVars, threadVars>>
    /\ bm.exists
    /\ ~Live(bf)
    /\ SysCallsFail(bm, o, "ok")
    /\ \E r \in {BitmapFlush(bm, Env, o)} :
           /\ file' = r.file
           /\ durable' = r.durable
           /\ ret' = Ret("bm_flush", NoKey, 0, 0, r.exc, r.calls,
                         bm.mmap = NULL)
    /\ UNCHANGED <<bm, bf, passed, added, trueAdds, initCount, saved>>

\* bitmap.close(flush)
BitmapCloseOp(doFlush, o) ==
    /\ UNCHANGED <<sbfVars, threadVars>>
    /\ bm.exists
    /\ ~Live(bf)
    /\ SysCallsFail(bm, o, "ok")
    /\ ~doFlush => o = "ok"
    /\ \E r \in {BitmapClose(bm, Env, doFlush, o)} :
           /\ bm' = r.bm
           /\ file' = r.file
           /\ durable' = r.durable
           /\ ret' = Ret("bm_close", NoKey, 0, 0, r.exc, r.calls,
                         bm.mmap = NULL /\ bm.fileobj = "None")
    /\ UNCHANGED <<bf, passed, added, trueAdds, initCount, saved>>

(***************************************************************************)
(* BloomFilter operations.                                                 *)
(***************************************************************************)

\* BloomFilter(bitmap, k)
NewBloomFilter(k, o) ==
    /\ UNCHANGED <<sbfVars, threadVars>>
    /\ bm.mmap # NULL
    /\ ~Live(bf)
    /\ SysCallsFail(bm, o, "ok")
    /\ HeaderReadable(bm)
    /\ \E r \in {BloomInit(bm, Env, k, o)} :
           /\ bm' = r.bm
           /\ file' = r.file
           /\ durable' = r.durable
           /\ bf' = IF r.exc = "none" THEN r.bf ELSE bf
           /\ ret' = Ret("bf_new", NoKey, k, 0, r.exc, r.calls, FALSE)
           /\ IF r.exc = "none"
              THEN /\ passed' = {}
                   /\ added' = {}
                   /\ trueAdds' = 0
                   /\ initCount' = r.bf.count
              ELSE UNCHANGED <<passed, added, trueAdds, initCount>>
           /\ saved' = IF saved.valid /\ saved.size = bm.size /\ r.exc = "none"
                       THEN saved ELSE NoSaved

\* bf.add(key, check_first)
Add(key, check_first) ==
    /\ UNCHANGED <<sbfVars, threadVars>>
    /\ bf.exists
    /\ bf.count < MaxAdds
    /\ \E r \in {BloomAdd(bf, bm, key, check_first)} :
           /\ bf' = r.bf
           /\ bm' = r.bm
           /\ ret' = Ret("add", key, check_first, r.val, r.exc, <<>>,
                         ~Live(bf))
           /\ passed' = passed \cup {key}
           /\ added' = IF r.exc = "none" THEN added \cup {key} ELSE added
           /\ trueAdds' = IF r.exc = "none" /\ r.val THEN trueAdds + 1
                          ELSE trueAdds
    /\ saved' = NoSaved
    /\ UNCHANGED <<file, durable, initCount>>

\* key in bf
Contains(key) ==
    /\ UNCHANGED <<sbfVars, threadVars>>
    /\ bf.exists
    /\ \E r \in {BloomContains(bf, bm, key)} :
           /\ bf' = [bf EXCEPT !.hashes = r.hashes]
           /\ ret' = Ret("contains", key, 0, r.val, r.exc, <<>>, ~Live(bf))
    /\ UNCHANGED <<file, durable, bm, passed, added, trueAdds, initCount,
                   saved>>

\* len(bf)
Length ==
    /\ UNCHANGED <<sbfVars, threadVars>>
    /\ bf.exists
    /\ ret' = Ret("len", NoKey, 0, bf.count, "none", <<>>, ~Live(bf))
    /\ UNCHANGED <<file, durable, bm, bf, passed, added, trueAdds, initCount,
                   saved>>

\* bf.flush()
Flush(o) ==
    /\ UNCHANGED <<sbfVars, threadVars>>
    /\ bf.exists
    /\ SysCallsFail(bm, o, "ok")
    /\ \E r \in {BloomFlush(bf, bm, Env, o)} :
           /\ bm' = r.bm
           /\ file' = r.file
           /\ durable' = r.durable
           /\ ret' = Ret("flush", NoKey, 0, 0, r.exc, r.calls, ~Live(bf))
    /\ saved' = IF Live(bf) THEN NoSaved ELSE saved
    /\ UNCHANGED <<bf, passed, added, trueAdds, initCount>>

\* bf.close()
Close(o1, o2) ==
    /\ UNCHANGED <<sbfVars, threadVars>>
    /\ bf.exists
    /\ SysCallsFail(bm, o1, o2)
    /\ \E r \in {BloomClose(bf, bm, Env, o1, o2)} :
           /\ bf' = r.bf
           /\ bm' = r.bm
           /\ file' = r.file
           /\ durable' = r.durable
           /\ ret' = Ret("close", NoKey, 0, 0, r.exc, r.calls, ~Live(bf))
           /\ saved' = IF ~Live(bf) THEN saved
                       ELSE IF r.exc = "none" /\ bm.fileno # ANON_FD
                       THEN [valid |-> TRUE, size |-> bm.size,
                             shared |-> IsShared(bm), k_num |-> bf.k_num,
                             count |-> bf.count, keys |-> added]
                       ELSE NoSaved
    /\ UNCHANGED <<passed, added, trueAdds, initCount>>

(***************************************************************************)
(* The kernel and the machine.                                             *)
(***************************************************************************)

\* the kernel writes the dirty pages of the shared mapping to the file
PageWriteback ==
    /\ UNCHANGED <<sbfVars, threadVars>>
    /\ bm.mmap # NULL
    /\ IsShared(bm)
    /\ file # Overlay(file, bm.mmap)
    /\ file' = Overlay(file, bm.mmap)
    /\ UNCHANGED <<durable, bm, bf, ret, passed, added, trueAdds, initCount,
                   saved>>

\* the kernel writes the file to stable storage
FileWriteback ==
    /\ UNCHANGED <<sbfVars, threadVars>>
    /\ durable # file
    /\ durable' = file
    /\ UNCHANGED <<file, bm, bf, ret, passed, added, trueAdds, initCount,
                   saved>>

\* the machine stops: the process and everything not on stable storage go
Crash ==
    /\ UNCHANGED <<sbfVars, threadVars>>
    /\ bm.exists
    /\ file' = durable
    /\ bm' = NoBitmap
    /\ bf' = NoFilter
    /\ ret' = Ret("crash", NoKey, 0, 0, "none", <<>>, FALSE)
    /\ passed' = {}
    /\ added' = {}
    /\ trueAdds' = 0
    /\ initCount' = 0
    /\ UNCHANGED <<durable, saved>>

Next ==
    \/ \E length \in Sizes, named \in BOOLEAN, private \in BOOLEAN,
          mapped \in BOOLEAN : NewBitmap(length, named, private, mapped)
    \/ \E idx \in 0..(8 * MaxRawSize - 1) : BitmapGetItem(idx)
    \/ \E idx \in 0..(8 * MaxRawSize - 1), val \in 0..2 :
          BitmapSetItem(idx, val)
    \/ \E o \in FlushOutcomes : BitmapFlushOp(o)
    \/ \E doFlush \in BOOLEAN, o \in FlushOutcomes : BitmapCloseOp(doFlush, o)
    \/ \E k \in KValues, o \in FlushOutcomes : NewBloomFilter(k, o)
    \/ \E key \in Keys, check_first \in 0..1 : Add(key, check_first)
    \/ \E key \in Keys : Contains(key)
    \/ Length
    \/ \E o \in FlushOutcomes : Flush(o)
    \/ \E o1 \in FlushOutcomes, o2 \in FlushOutcomes : Close(o1, o2)
    \/ PageWriteback
    \/ FileWriteback
    \/ Crash

Spec == Init /\ [][Next]_vars

(***************************************************************************)
(* The calls on a ScalingBloomFilter.                                      *)
(***************************************************************************)
MaxLayers == 3

\* sbf = ScalingBloomFilter(initial_capacity, Prob, scale_size, ScaleProb,
\*                          bitmap_factory)
ScalingNew(initial_capacity, scale_size, factory) ==
    /\ ~sbf.exists
    /\ sbf' = SbfInit(initial_capacity, Prob, scale_size, ScaleProb, factory)
    /\ factoryCalls' = IF factory THEN 1 ELSE 0
    /\ ret' = Ret("sbf_new", NoKey, initial_capacity, 0, "none", <<>>, FALSE)
    /\ UNCHANGED <<sbfPassed, sbfRepeated, sbfTrueAdds>>
    /\ UNCHANGED <<directVars, threadVars>>

\* sbf.add(key)
ScalingAdd(key) ==
    /\ sbf.exists
    /\ \E r \in {SbfAdd(sbf, key)} :
           /\ Len(sbf.filters) < MaxLayers \/ ~r.grew
           /\ sbf' = r.sbf
           /\ factoryCalls' = IF r.grew /\ sbf.factory
                              THEN factoryCalls + 1 ELSE factoryCalls
           /\ sbfPassed' = sbfPassed \cup {key}
           /\ sbfRepeated' = (sbfRepeated \/ key \in sbfPassed)
           /\ sbfTrueAdds' = IF r.val THEN sbfTrueAdds + 1 ELSE sbfTrueAdds
           /\ ret' = Ret("sbf_add", key, 0, r.val, r.exc, <<>>, FALSE)
    /\ UNCHANGED <<directVars, threadVars>>

\* key in sbf
ScalingContains(key) ==
    /\ sbf.exists
    /\ \E r \in {SbfContains(sbf, key)} :
           /\ sbf' = [sbf EXCEPT !.filters = r.filters]
           /\ ret' = Ret("sbf_contains", key, 0, r.val, "none", <<>>, FALSE)
    /\ UNCHANGED <<factoryCalls, sbfPassed, sbfRepeated, sbfTrueAdds>>
    /\ UNCHANGED <<directVars, threadVars>>

\* len(sbf)
ScalingLen ==
    /\ sbf.exists
    /\ ret' = Ret("sbf_len", NoKey, 0, SbfLen(sbf), "none", <<>>, FALSE)
    /\ UNCHANGED <<sbfVars, threadVars>>
    /\ UNCHANGED <<directVars, threadVars>>

\* sbf.total_capacity()
ScalingTotalCapacity ==
    /\ sbf.exists
    /\ ret' = Ret("sbf_total_capacity", NoKey, 0, SbfTotalCapacity(sbf),
                  "none", <<>>, FALSE)
    /\ UNCHANGED <<sbfVars, threadVars>>
    /\ UNCHANGED <<directVars, threadVars>>

NextSBF ==
    \/ \E initial_capacity \in InitialCapacities, scale_size \in ScaleSizes,
          factory \in BOOLEAN :
          ScalingNew(initial_capacity, scale_size, factory)
    \/ \E key \in SbfKeys : ScalingAdd(key)
    \/ \E key \in SbfKeys : ScalingContains(key)
    \/ ScalingLen
    \/ ScalingTotalCapacity

SpecSBF == Init /\ [][NextSBF]_vars


(***************************************************************************)
(* Properties.                                                             *)
(***************************************************************************)

\* bit pos (0 = least significant) of a byte
BitOf(byte, pos) == (byte \div Pow2(pos)) % 2

\* the Bitmap bm with the bytes that stable storage holds in place of mmap
DurableBitmap == [bm EXCEPT !.mmap = SubSeq(durable, 1, bm.size)]

\* contains(x) returns True on the filter as it is now
Holds(x) ==
    /\ BloomContains(bf, bm, x).exc = "none"
    /\ BloomContains(bf, bm, x).val

\* C1: no false negatives: on a filter that has not been closed, every key
\* that was passed to add (with check_first 0 or 1) is contained, in every
\* later state.
C1_NoFalseNegatives ==
    Live(bf) => \A x \in passed : Holds(x)

\* C1 holds of every filter whose partitions are at least one bit wide
C1_NoFalseNegativesPartitioned ==
    (Live(bf) /\ bf.offset >= 1) => \A x \in passed : Holds(x)

C1_Reached ==
    /\ Live(bf)
    /\ bf.offset >= 1
    /\ Cardinality(passed) = 2

\* C2: round trip: after flush and close of a file-backed filter, a Bitmap of
\* the same size over the same file and a BloomFilter over it have the same
\* k, the same count and contain every key added before the close.
C2_RoundTrip ==
    (/\ ret.op = "bf_new"
     /\ ret.exc = "none"
     /\ saved.valid
     /\ saved.size = bm.size)
    => /\ bf.k_num = saved.k_num
       /\ bf.count = saved.count
       /\ \A x \in saved.keys : Holds(x)

\* C2 as amended: the round trip holds when the closed filter's Bitmap was
\* mapped MAP_SHARED (private = False).
C2_RoundTripShared ==
    (/\ ret.op = "bf_new"
     /\ ret.exc = "none"
     /\ saved.valid
     /\ saved.shared
     /\ saved.size = bm.size)
    => /\ bf.k_num = saved.k_num
       /\ bf.count = saved.count
       /\ \A x \in saved.keys : Holds(x)

C2_Reopened ==
    /\ ret.op = "bf_new"
    /\ ret.exc = "none"
    /\ saved.valid
    /\ saved.shared
    /\ saved.size = bm.size
    /\ saved.keys # {}
    /\ saved.count = 2
    /\ ret.arg # saved.k_num

\* C3: a construction uses the k stored in the header when that is nonzero
\* and ignores the caller's k; when the stored k is 0 it uses the caller's k,
\* writes it into the header and flushes the Bitmap; afterwards the header's
\* k field equals the filter's k.
C3_StoredKWins ==
    [][\A k \in KValues, o \in FlushOutcomes :
         (NewBloomFilter(k, o) /\ ret'.exc = "none") =>
            LET stored == ReadKNum(bm, BitmapLen(bm) - 8 * extra_buffer)
            IN  /\ stored # 0 =>
                    /\ bf'.k_num = stored
                    /\ bm' = bm
                    /\ ret'.calls = <<>>
                /\ stored = 0 =>
                    /\ bf'.k_num = k
                    /\ ret'.calls = IF bm.fileno = ANON_FD THEN <<>>
                                    ELSE <<"msync", "fsync">>
                    /\ IsShared(bm) =>
                          /\ Len(durable') >= bm.size
                          /\ SubSeq(durable', 1, bm.size) = bm'.mmap
                /\ FromBytes(SubSeq(bm'.mmap, bm.size - K_NUM_LEN + 1,
                                    bm.size)) = bf'.k_num
                /\ Live(bf')]_vars

C3_CallerKIgnored ==
    /\ ret.op = "bf_new"
    /\ ret.exc = "none"
    /\ Live(bf)
    /\ ret.arg # bf.k_num

\* C4: add(key, check_first=1) on a filter that contains key returns False
\* and leaves the bit storage, the header bytes and the count unchanged.
C4_CheckedAddOfMemberIsNoOp ==
    [][\A key \in Keys :
         (Add(key, 1) /\ Holds(key)) =>
            /\ ret'.exc = "none"
            /\ ret'.val = FALSE
            /\ bm'.mmap = bm.mmap
            /\ bf'.count = bf.count]_vars

C4_MemberAddedAgain ==
    /\ ret.op = "add"
    /\ ret.arg = 1
    /\ ret.exc = "none"
    /\ ret.val = FALSE
    /\ ret.key \in passed

\* C5: len() equals the count read at construction plus the number of adds
\* on this instance that returned True, and an add with check_first=0 on a
\* filter that has not been closed returns True (and so counts one more),
\* also for a key added before.
C5_CountTracksAdds ==
    /\ bf.exists => bf.count = initCount + trueAdds
    /\ (ret.op = "add" /\ ret.arg = 0 /\ ~ret.closedBefore) =>
          (ret.exc = "none" /\ ret.val = TRUE)

\* the first half of C5, which holds of every filter
C5_CountIsInitPlusTrueAdds ==
    bf.exists => bf.count = initCount + trueAdds

C7_RejectsBadArguments ==
    (ret.op = "bf_new" /\ (ret.arg < 1 \/ bm.size <= extra_buffer))
       => (ret.exc = "ValueError" /\ ~Live(bf))

\* C8: close of an already closed Bitmap or BloomFilter makes no system call
\* (no msync, fsync, munmap or close), raises nothing and leaves the object
\* and the file as they were.
C8_CloseIdempotent ==
    [][/\ \A doFlush \in BOOLEAN, o \in FlushOutcomes :
            (/\ BitmapCloseOp(doFlush, o)
             /\ bm.mmap = NULL
             /\ bm.fileobj = "None") =>
               /\ ret'.calls = <<>>
               /\ ret'.exc = "none"
               /\ bm' = bm
               /\ file' = file
               /\ durable' = durable
       /\ \A o1 \in FlushOutcomes, o2 \in FlushOutcomes :
            (Close(o1, o2) /\ ~Live(bf)) =>
               /\ ret'.calls = <<>>
               /\ ret'.exc = "none"
               /\ bf' = bf
               /\ bm' = bm
               /\ file' = file
               /\ durable' = durable]_vars

C8_ClosedTwice ==
    /\ ret.op = "bm_close"
    /\ ret.closedBefore
    /\ bm.fileno # ANON_FD
    /\ bf.exists
    /\ ~Live(bf)

\* C9: Bitmap.flush on a file-backed map calls msync over the mapped region
\* and then fsync, fsync only after msync succeeded, and raises OSError when
\* either fails; on an anonymous map it makes neither call and succeeds.
C9_FlushCalls ==
    [][\A o \in FlushOutcomes :
         (BitmapFlushOp(o) /\ bm.mmap # NULL) =>
            IF bm.fileno = ANON_FD
            THEN ret'.calls = <<>> /\ ret'.exc = "none"
            ELSE /\ o = "msync_fails" =>
                    ret'.calls = <<"msync">> /\ ret'.exc = "OSError"
                 /\ o = "fsync_fails" =>
                    ret'.calls = <<"msync", "fsync">> /\ ret'.exc = "OSError"
                 /\ o = "ok" =>
                    ret'.calls = <<"msync", "fsync">> /\ ret'.exc = "none"
                 /\ (o # "msync_fails" /\ IsShared(bm)) =>
                    SubSeq(file', 1, bm.size) = bm.mmap]_vars

C9_FsyncFailed ==
    /\ ret.op = "bm_flush"
    /\ ret.exc = "OSError"
    /\ ret.calls = <<"msync", "fsync">>
    /\ bm.mmap # NULL

\* C10: when BloomFilter.flush returns on a MAP_SHARED file-backed filter,
\* stable storage holds the mapped region: every bit set by an earlier add
\* is set there and the header count there equals len().
C10_FlushIsDurable ==
    [][\A o \in FlushOutcomes :
         (Flush(o) /\ Live(bf) /\ IsShared(bm) /\ ret'.exc = "none") =>
            /\ Len(durable') >= bm.size
            /\ SubSeq(durable', 1, bm.size) = bm'.mmap
            /\ ReadCount(DurableBitmap', bf.bitmap_size) = bf.count
            /\ \A x \in added :
                  BloomContains(bf, DurableBitmap', x).val]_vars

C10_Flushed ==
    /\ ret.op = "flush"
    /\ ret.exc = "none"
    /\ Live(bf)
    /\ IsShared(bm)
    /\ added # {}
    /\ bf.count = 2
    /\ Len(durable) >= bm.size
    /\ SubSeq(durable, 1, bm.size) = bm.mmap

(***************************************************************************)
(* Byte-slice access to a Bitmap.                                          *)
(***************************************************************************)
MaxSliceSize == 2

\* the bytes that slices are written from
SliceBytes == {0, 97}

\* the str values of at most n bytes
SliceVals(n) == UNION {[1..len -> SliceBytes] : len \in 0..n}

\* what the char* of the str val points at: its bytes, the terminating NUL,
\* and the memory behind the object, which holds anything
AsCharPtr(val, beyond) == val \o <<0>> \o beyond

\* bm[i:j]
BitmapGetSliceOp(i, j) ==
    /\ bm.mmap # NULL
    /\ LET r == BitmapGetSlice(bm, i, j)
       IN  ret' = Ret("getslice", NoKey, <<i, j>>, r.val, r.exc, <<>>, FALSE)
    /\ UNCHANGED <<bm, file, durable, bf, passed, added, trueAdds, initCount,
                   saved>>
    /\ UNCHANGED <<sbfVars, threadVars>>

\* bm[i:j] = val
BitmapSetSliceOp(i, j, val, beyond) ==
    /\ bm.mmap # NULL
    /\ LET r == BitmapSetSlice(bm, i, j, AsCharPtr(val, beyond))
       IN  /\ bm' = r.bm
           /\ ret' = Ret("setslice", val, <<i, j>>, 0, r.exc, <<>>, FALSE)
    /\ UNCHANGED <<file, durable, bf, passed, added, trueAdds, initCount,
                   saved>>
    /\ UNCHANGED <<sbfVars, threadVars>>

NextSlice ==
    \/ \E length \in 0..MaxSliceSize, named \in BOOLEAN, private \in BOOLEAN,
          mapped \in BOOLEAN : NewBitmap(length, named, private, mapped)
    \/ \E i \in (-1)..MaxSliceSize, j \in 0..(MaxSliceSize + 1) :
          BitmapGetSliceOp(i, j)
    \/ \E i \in (-1)..MaxSliceSize, j \in 0..(MaxSliceSize + 1),
          val \in SliceVals(MaxSliceSize),
          beyond \in [1..(MaxSliceSize - 1) -> SliceBytes] :
          BitmapSetSliceOp(i, j, val, beyond)
    \/ \E doFlush \in BOOLEAN, o \in FlushOutcomes : BitmapCloseOp(doFlush, o)

SpecSlice == Init /\ [][NextSlice]_vars

(***************************************************************************)
(* Bitmaps over files that exist already, and construction that fails.     *)
(***************************************************************************)

\* the files the path names before the program runs: none, one shorter than
\* the small Bitmaps and one as long as the largest of them or longer
ExistingFiles == {<<>>, <<97>>, <<97, 98, 99>>}

\* the lengths these Bitmaps are given: invalid, the small ones, and lengths
\* that take two and three writes to fill
OpenSizes == (0..MaxSliceSize) \cup
             {ZERO_FILL_CHUNK + 1, 2 * ZERO_FILL_CHUNK + MaxRawSize}

\* the write of the zero-fill loop that fails, 0 for none
FailingWrites == 0..3

InitOpen ==
    /\ file \in ExistingFiles
    /\ durable = file
    /\ bm = NoBitmap
    /\ bf = NoFilter
    /\ ret = Ret("init", NoKey, 0, 0, "none", <<>>, FALSE)
    /\ passed = {}
    /\ added = {}
    /\ trueAdds = 0
    /\ initCount = 0
    /\ saved = NoSaved
    /\ sbf = NoSBF
    /\ factoryCalls = 0
    /\ sbfPassed = {}
    /\ sbfRepeated = FALSE
    /\ sbfTrueAdds = 0
    /\ gil = 1
    /\ pc = [t \in Threads |-> Running]

\* Bitmap(length, filename, private) over whatever the path names; o is
\* whether mmap succeeds, and write number fails of the zero-fill raises
\* after partial bytes
NewBitmapOver(length, named, private, o, fails, partial) ==
    /\ UNCHANGED <<sbfVars, threadVars>>
    /\ ~Live(bf)
    /\ bm.mmap = NULL
    \* one Bitmap is constructed over the file found, and the file is removed
    \* before the next one is
    /\ ret.op \in {"init", "unlink"}
    \* the writes only matter with a file name, a write that fails comes
    \* before mmap, and nothing matters for a bad length
    /\ ~named => fails = 0
    /\ fails = 0 => partial = 0
    /\ fails # 0 => o = "ok"
    /\ length <= 0 => ~named /\ ~private /\ o = "ok"
    /\ UNCHANGED <<durable, bf, passed, added, trueAdds, initCount, saved>>
    /\ \E r \in {BitmapInit(length, named, private, o, fails, partial, file)} :
           \* the write that fails is one the loop makes
           /\ fails # 0 => r.exc = "IOError"
           /\ BitmapInitDone(r, length)

\* the file is removed
Unlink ==
    /\ UNCHANGED <<sbfVars, threadVars>>
    /\ bm.mmap = NULL
    /\ file # <<>>
    /\ file' = <<>>
    /\ durable' = <<>>
    /\ ret' = Ret("unlink", NoKey, 0, 0, "none", <<>>, FALSE)
    /\ UNCHANGED <<bm, bf, passed, added, trueAdds, initCount, saved>>

NextOpen ==
    \/ \E length \in OpenSizes, named \in BOOLEAN, private \in BOOLEAN,
          o \in {"ok", "mmap_fails"}, fails \in FailingWrites,
          partial \in 0..1 :
          NewBitmapOver(length, named, private, o, fails, partial)
    \/ \E doFlush \in BOOLEAN, o \in FlushOutcomes : BitmapCloseOp(doFlush, o)
    \/ Unlink

SpecOpen == InitOpen /\ [][NextOpen]_vars

\* the small Bitmaps over these files, written bit by bit and slice by
\* slice, flushed and closed while the kernel writes pages back
NextMapped ==
    \/ \E length \in 0..MaxRawSize, named \in BOOLEAN, private \in BOOLEAN,
          o \in {"ok", "mmap_fails"} :
          NewBitmapOver(length, named, private, o, 0, 0)
    \/ \E idx \in {0, 8 * MaxRawSize - 1}, val \in 0..1 :
          BitmapSetItem(idx, val)
    \/ \E i \in 0..(MaxRawSize - 1), j \in 1..MaxRawSize,
          val \in SliceVals(1),
          beyond \in [1..(MaxRawSize - 1) -> SliceBytes] :
          BitmapSetSliceOp(i, j, val, beyond)
    \/ \E o \in FlushOutcomes : BitmapFlushOp(o)
    \/ \E doFlush \in BOOLEAN, o \in FlushOutcomes : BitmapCloseOp(doFlush, o)
    \/ PageWriteback
    \/ Unlink

SpecMapped == InitOpen /\ [][NextMapped]_vars

\* the filter bits of the Bitmap b that the BloomFilter f holds
FilterBits(f, b) == SubSeq(b.mmap, 1, f.bitmap_size \div 8)

\* what f.add(key, check_first) gives on the Bitmap b: the exception, the
\* answer, the filter and its filter bits
AddOutcome(f, b, key, check_first) ==
    {<<r.exc, r.val, r.bf, FilterBits(f, r.bm)>> :
        r \in {BloomAdd(f, b, key, check_first)}}

\* C20: a flush of a live BloomFilter that fails with an OSError (msync or
\* fsync failed) leaves the filter bits, the count and k as they were and the
\* filter usable: every later add, lookup and len() gives what it would have
\* given without the flush.
C20_FailedFlushKeepsMemory ==
    [][(ret'.op = "flush" /\ ret'.exc = "OSError" /\ Live(bf)
          /\ \E o \in FlushOutcomes : Flush(o))
         => /\ bf' = bf
            /\ bm'.mmap # NULL
            /\ bm'.size = bm.size
            /\ FilterBits(bf, bm') = FilterBits(bf, bm)
            /\ ReadKNum(bm', bf.bitmap_size) = ReadKNum(bm, bf.bitmap_size)
            /\ \A key \in Keys :
                 /\ BloomContains(bf', bm', key) = BloomContains(bf, bm, key)
                 /\ \A check_first \in 0..1 :
                      AddOutcome(bf', bm', key, check_first)
                        = AddOutcome(bf, bm, key, check_first)]_vars

\* a flush of a filter that holds a key has failed
C20_FlushFailed ==
    /\ ret.op = "flush"
    /\ ret.exc = "OSError"
    /\ Live(bf)
    /\ bf.count >= 1
    /\ added # {}

(***************************************************************************)
(* Properties of the ScalingBloomFilter.                                   *)
(***************************************************************************)

\* the step is a call of sbf.add
IsScalingAdd == sbf.exists /\ ret'.op = "sbf_add" /\ <<sbf, ret>>' # <<sbf, ret>>

\* the layer holds key
LayerHolds(layer, key) == BloomContains(layer.bf, layer.bm, key).val

\* C11: sbf.add appends a layer exactly when its add to the newest layer
\* returned True and that layer's count has then reached its capacity; the
\* key that triggers the growth is in the layer that was the newest, and the
\* appended layer is empty; an add that returns False appends no layer.
C11_GrowsWhenNewestIsFull ==
    [][IsScalingAdd =>
         LET n == Len(sbf.filters)
             now == sbf'.filters[n]
         IN  /\ Len(sbf'.filters) \in {n, n + 1}
             /\ (Len(sbf'.filters) = n + 1)
                  <=> (ret'.val /\ now.bf.count >= now.capacity)
             /\ Len(sbf'.filters) = n + 1
                  => /\ LayerHolds(now, ret'.key)
                     /\ now.bf.count = sbf.filters[n].bf.count + 1
                     /\ sbf'.filters[n + 1].bf.count = 0
             /\ ~ret'.val => Len(sbf'.filters) = n]_vars

\* an add has just made the ScalingBloomFilter grow
C11_Grew ==
    /\ ret.op = "sbf_add" /\ ret.val
    /\ Len(sbf.filters) >= 2
    /\ sbf.filters[Len(sbf.filters)].bf.count = 0
    /\ sbf.filters[Len(sbf.filters) - 1].bf.count
         >= sbf.filters[Len(sbf.filters) - 1].capacity

\* C12: the sum of the layers' capacities is at least the sum of their
\* counts, and a ScalingBloomFilter whose length exceeds its initial capacity
\* has at least two layers.
C12_CapacityCoversLength ==
    sbf.exists =>
        /\ SbfTotalCapacity(sbf) >= SbfLen(sbf)
        /\ SbfLen(sbf) > sbf.initial_capacity => Len(sbf.filters) >= 2

\* total_capacity() has answered for a ScalingBloomFilter that holds more
\* keys than its initial capacity
C12_Outgrown ==
    /\ ret.op = "sbf_total_capacity"
    /\ SbfLen(sbf) > sbf.initial_capacity
    /\ ret.val = SbfTotalCapacity(sbf)

\* the bytes of the layer's Bitmap after its filter bits: count and k
LayerHeader(layer) ==
    SubSeq(layer.bm.mmap, (layer.bf.bitmap_size \div 8) + 1, layer.bm.size)

\* C13: sbf.add changes nothing but the filter bits and the count of the
\* newest layer: every older layer is left as it was, and the newest keeps
\* its size, its k and its stored header; no step removes or reorders layers.
C13_AddTouchesNewestOnly ==
    [][sbf.exists =>
         LET n == Len(sbf.filters)
         IN  /\ Len(sbf'.filters) >= n
             /\ \A i \in 1..n :
                  /\ sbf'.filters[i].capacity = sbf.filters[i].capacity
                  /\ sbf'.filters[i].prob = sbf.filters[i].prob
                  /\ sbf'.filters[i].bm.size = sbf.filters[i].bm.size
             /\ IsScalingAdd =>
                  /\ \A i \in 1..(n - 1) : sbf'.filters[i] = sbf.filters[i]
                  /\ sbf'.filters[n].bf.k_num = sbf.filters[n].bf.k_num
                  /\ LayerHeader(sbf'.filters[n]) = LayerHeader(sbf.filters[n])
                  /\ sbf'.filters[n].bf.count
                       \in {sbf.filters[n].bf.count,
                            sbf.filters[n].bf.count + 1}]_vars

\* an add has just set bits in the newest of several layers
C13_AddedBelowOlderLayers ==
    /\ ret.op = "sbf_add" /\ ret.val
    /\ Len(sbf.filters) >= 2
    /\ sbf.filters[Len(sbf.filters)].bf.count >= 1

\* C14: key in sbf answers True exactly when some layer's BloomFilter holds
\* the key, and every key that was passed to sbf.add is held from then on,
\* whatever was added and however often the filter grew since.
C14_ContainsIsAnyLayer ==
    sbf.exists =>
        /\ ret.op = "sbf_contains"
             => (ret.val <=> \E i \in 1..Len(sbf.filters) :
                                LayerHolds(sbf.filters[i], ret.key))
        /\ \A key \in sbfPassed : SbfContains(sbf, key).val

\* a key that was added is found in an older layer, not in the newest
C14_FoundInOlderLayer ==
    /\ ret.op = "sbf_contains" /\ ret.val
    /\ ret.key \in sbfPassed
    /\ Len(sbf.filters) >= 2
    /\ ~LayerHolds(sbf.filters[Len(sbf.filters)], ret.key)

\* C15: the bitmap factory is called once when the ScalingBloomFilter is
\* constructed and once for each growth, 1 + g calls after g growths; twice
\* as many distinct keys as the initial capacity make exactly one growth and
\* two calls.  Without a factory nothing is called.
C15_FactoryCalledPerLayer ==
    sbf.exists =>
        IF sbf.factory
        THEN /\ factoryCalls = 1 + (Len(sbf.filters) - 1)
             /\ (~sbfRepeated
                   /\ Cardinality(sbfPassed) = 2 * sbf.initial_capacity)
                  => factoryCalls = 2
        ELSE factoryCalls = 0

\* the factory made the second layer when the first one filled up
C15_FactoryCalledTwice ==
    /\ ret.op = "sbf_add"
    /\ sbf.factory
    /\ ~sbfRepeated
    /\ Cardinality(sbfPassed) = 2 * sbf.initial_capacity
    /\ factoryCalls = 2
    /\ sbf.filters[2].bm.fileno = FILE_FD

\* C16 as stated: after adds of pairwise distinct keys to a fresh
\* ScalingBloomFilter its length is the number of keys.
C16_LenIsNumberOfDistinctKeys ==
    (sbf.exists /\ ~sbfRepeated) => SbfLen(sbf) = Cardinality(sbfPassed)

\* C16: the length of a fresh ScalingBloomFilter is the sum of its layers'
\* counts, which is the number of add calls that returned True; after adds of
\* pairwise distinct keys it is at most the number of keys.
C16_LenIsNumberOfTrueAdds ==
    sbf.exists =>
        /\ SbfLen(sbf) = sbfTrueAdds
        /\ ret.op = "sbf_len" => ret.val = sbfTrueAdds
        /\ ~sbfRepeated => SbfLen(sbf) <= Cardinality(sbfPassed)

\* len() has answered after a distinct key was refused as a false positive
C16_DistinctKeyRefused ==
    /\ ret.op = "sbf_len"
    /\ ~sbfRepeated
    /\ ret.val < Cardinality(sbfPassed)
    /\ ret.val >= 1

\* C17: sbf.add of a key that an older layer holds and the newest layer does
\* not returns True, leaves the key held by the layer that was the newest and
\* raises the length by one; sbf.add of a key that the newest layer holds
\* returns False and leaves the length as it was.
C17_AddLooksAtNewestOnly ==
    [][IsScalingAdd =>
         LET n == Len(sbf.filters)
             key == ret'.key
         IN  /\ ((\E i \in 1..(n - 1) : LayerHolds(sbf.filters[i], key))
                   /\ ~LayerHolds(sbf.filters[n], key))
                  => /\ ret'.val
                     /\ LayerHolds(sbf'.filters[n], key)
                     /\ sbf'.filters[n].bm # sbf.filters[n].bm
                     /\ SbfLen(sbf') = SbfLen(sbf) + 1
             /\ LayerHolds(sbf.filters[n], key)
                  => /\ ~ret'.val
                     /\ SbfLen(sbf') = SbfLen(sbf)]_vars

\* a key of an older layer has been added again, to the newest layer
C17_AddedAgain ==
    /\ ret.op = "sbf_add" /\ ret.val
    /\ sbfRepeated
    /\ Len(sbf.filters) >= 2
    /\ LayerHolds(sbf.filters[Len(sbf.filters)], ret.key)
    /\ \E i \in 1..(Len(sbf.filters) - 1) : LayerHolds(sbf.filters[i], ret.key)
    /\ SbfLen(sbf) > Cardinality(sbfPassed)

RECURSIVE FracPow(_, _)
\* x to the power n
FracPow(x, n) == IF n = 0 THEN <<1, 1>> ELSE FracMul(x, FracPow(x, n - 1))

\* x + y
FracAdd(x, y) == Frac(x[1] * y[2] + y[1] * x[2], x[2] * y[2])

\* x <= y
FracLeq(x, y) == x[1] * y[2] <= y[1] * x[2]

RECURSIVE SbfProbFrom(_, _)
\* the sum of the target probabilities of layers i and older
SbfProbFrom(filters, i) ==
    IF i = 0 THEN <<0, 1>>
    ELSE FracAdd(filters[i].prob, SbfProbFrom(filters, i - 1))

\* C18: layer i (from 0) has the target probability
\* prob * (1 - scale_prob) * scale_prob ^ i, a tenth of prob for layer 0 with
\* the scale_prob 0.9; its Bitmap has the bits that this probability requires
\* for the layer's capacity; the target probabilities of all layers sum to at
\* most prob.
C18_LayerProbabilities ==
    sbf.exists =>
        /\ \A i \in 1..Len(sbf.filters) :
             /\ sbf.filters[i].prob
                  = FracMul(FracMul(sbf.prob, FracCompl(sbf.scale_prob)),
                            FracPow(sbf.scale_prob, i - 1))
             /\ 8 * (sbf.filters[i].bm.size - extra_buffer) * LN2SQ_MICRO
                  >= sbf.filters[i].capacity * NegLn(sbf.filters[i].prob)
        /\ sbf.filters[1].prob = FracMul(<<1, 10>>, sbf.prob)
        /\ FracLeq(SbfProbFrom(sbf.filters, Len(sbf.filters)), sbf.prob)

\* the ScalingBloomFilter has a third layer, at 0.81 of the first
\* layer's probability
C18_ThirdLayer ==
    /\ sbf.exists
    /\ Len(sbf.filters) >= 3
    /\ sbf.filters[3].prob = <<81, 2000>>
    /\ sbf.filters[3].bf.count = 0

\* C19 as stated: bm[i:j] and bm[i:j] = val raise and change nothing unless
\* 0 <= i < j <= size; otherwise bm[i:j] = val leaves exactly the given
\* bytes in [i, j) and every other byte as it was, and bm[i:j] then returns
\* the given bytes; bm[i:j] returns the bytes of [i, j).
C19_SliceConfined ==
    [][(bm.mmap # NULL /\ ret' # ret /\ ret'.op \in {"getslice", "setslice"})
         => LET i == ret'.arg[1]
                j == ret'.arg[2]
            IN  IF ~(0 <= i /\ i < j /\ j <= bm.size)
                THEN ret'.exc = "ValueError" /\ bm' = bm
                ELSE /\ ret'.exc = "none"
                     /\ bm'.size = bm.size
                     /\ \A x \in 1..bm.size :
                          (x <= i \/ x > j) => bm'.mmap[x] = bm.mmap[x]
                     /\ ret'.op = "setslice"
                          => /\ SubSeq(bm'.mmap, i + 1, j) = ret'.key
                             /\ BitmapGetSlice(bm', i, j).val = ret'.key
                     /\ ret'.op = "getslice"
                          => /\ bm' = bm
                             /\ ret'.val = SubSeq(bm.mmap, i + 1, j)]_vars

\* number of times the call x occurs in the sequence of calls
Occurrences(calls, x) == Cardinality({i \in DOMAIN calls : calls[i] = x})

\* C21: a Bitmap construction that raises, for a length that is not
\* positive, a write of the zero-fill that fails or an mmap that fails,
\* leaves no mapping behind, has closed the file as often as it opened it,
\* and hands the program no new Bitmap
C21_FailedInitReleases ==
    [][(ret'.op = "bm_new" /\ ret'.exc # "none") =>
          /\ ret'.val = 0
          /\ Occurrences(ret'.calls, "close") =
                 Occurrences(ret'.calls, "open")
          /\ ret'.exc = "ValueError" => ret'.calls = <<>>
          /\ bm' = bm
          /\ bm'.mmap = NULL]_vars

\* the second write of the zero-fill failed
C21_SecondWriteFailed ==
    /\ ret.op = "bm_new"
    /\ ret.exc = "IOError"
    /\ ret.calls = <<"open", "write", "write", "close">>
    /\ Len(file) >= ZERO_FILL_CHUNK

\* C24: a file-backed construction over a file that lacks diff > 0 bytes
\* ends its zero-fill after ceil(diff / 100000) writes, every write but the
\* last of 100000 bytes and the last of what is still missing, and calls
\* mmap only after them, on a file of at least length bytes; the file is
\* then the bytes it had followed by diff zero bytes, and a file that had
\* length bytes or more is not written to
C24_ZeroExtension ==
    [][(ret'.op = "bm_new" /\ ret'.calls # <<>> /\ ret'.calls[1] = "open") =>
          \E diff \in {ret'.arg - Len(file)},
             appended \in {Len(file') - Len(file)},
             n \in {Occurrences(ret'.calls, "write")} :
              /\ appended >= 0
              /\ file' = file \o Zeros(appended)
              /\ diff <= 0 => n = 0 /\ file' = file
              /\ IF ret'.exc = "IOError"
                 THEN \* the writes before the one that failed were whole
                      /\ diff > 0
                      /\ Occurrences(ret'.calls, "mmap") = 0
                      /\ appended >= (n - 1) * ZERO_FILL_CHUNK
                      /\ appended < Min(diff, n * ZERO_FILL_CHUNK)
                 ELSE /\ n = CeilDiv(IF diff > 0 THEN diff ELSE 0,
                                     ZERO_FILL_CHUNK)
                      /\ appended = (IF diff > 0 THEN diff ELSE 0)
                      /\ Len(file') >= ret'.arg
                      /\ SubSeq(ret'.calls, 1, n + 2) =
                             <<"open">> \o Writes(n) \o <<"mmap">>
                      /\ ret'.exc = "none" =>
                             bm'.mmap = SubSeq(file', 1, ret'.arg)]_vars

\* a missing file was extended by two writes and mapped
C24_ExtendedInTwoWrites ==
    /\ ret.op = "bm_new"
    /\ ret.exc = "none"
    /\ ret.arg = ZERO_FILL_CHUNK + 1
    /\ ret.calls = <<"open", "write", "write", "mmap">>
    /\ Len(file) = ret.arg
    /\ bm.mmap = file

\* C25: a Bitmap constructed without a path is an anonymous private map
\* whatever private is, one constructed over a file is shared unless private
\* is asked for, and while a private map over a file is mapped no step, of
\* set, set_slice, flush, close or the kernel, changes the file
C25_MappingMode ==
    [][/\ (ret'.op = "bm_new" /\ ret'.exc = "none" /\ ret.op # "bm_new") =>
             \A private \in BOOLEAN :
                 /\ \E b \in {BitmapInit(ret'.arg, FALSE, private, "ok", 0,
                                         0, file).obj} :
                        /\ b.fileno = ANON_FD
                        /\ b.private = 1
                        /\ ~IsShared(b)
                        /\ b.mmap = Zeros(ret'.arg)
                        /\ ret'.calls[1] = "mmap" => bm' = b
                 /\ \E r \in {BitmapInit(ret'.arg, TRUE, private, "ok", 0,
                                         0, file)} :
                        /\ r.obj.fileno # ANON_FD
                        /\ r.obj.private = (IF private THEN 1 ELSE 0)
                        /\ IsShared(r.obj) <=> ~private
                        /\ (ret'.calls[1] = "open"
                              /\ bm'.private = r.obj.private) => bm' = r.obj
       /\ (bm.mmap # NULL /\ bm.fileno # ANON_FD /\ bm.private = 1) =>
             file' = file
       /\ (bm.mmap # NULL /\ bm.fileno = ANON_FD) =>
             /\ bm.private = 1
             /\ file' = file]_vars

\* a private map over a file was written by set_slice and then flushed,
\* and differs from the file
C25_PrivateMapWritten ==
    /\ ret.op = "bm_flush"
    /\ ret.exc = "none"
    /\ ret.calls = <<"msync", "fsync">>
    /\ bm.mmap # NULL
    /\ bm.fileno # ANON_FD
    /\ bm.private = 1
    /\ bm.mmap[1] = 97
    /\ file[1] = 0

(***************************************************************************)
(* Threads.  A thread runs Python code, the methods of Bitmap included,    *)
(* only while it holds the global interpreter lock; "with nogil" releases  *)
(* the lock on entry and takes it again on exit.                          *)
(***************************************************************************)

\* thread t constructs the one-byte Bitmap
ThreadNewBitmap(t, named, private) ==
    /\ gil = t
    /\ pc[t] = Running
    /\ NewBitmap(1, named, private, TRUE)

\* thread t runs bitmap[idx] = val
ThreadSetItem(t, idx, val) ==
    /\ gil = t
    /\ pc[t] = Running
    /\ BitmapSetItem(idx, val)

\* Bitmap.flush that calls the C flush without "with nogil"
FlushBeginHoldingLock(t) ==
    /\ gil = t
    /\ pc[t] = Running
    /\ bm.exists
    /\ pc' = [pc EXCEPT ![t] = [at |-> IF bm.mmap # NULL THEN "syscalls"
                                       ELSE "after",
                                flushres |-> 0]]
    /\ UNCHANGED <<gil, ret, sbfVars, directVars>>

\* Bitmap.flush, thread t enters: flushres = 0, and with a mapping the
\* "with nogil" block is entered, which releases the lock
FlushBegin(t) ==
    /\ gil = t
    /\ pc[t] = Running
    /\ bm.exists
    /\ IF bm.mmap # NULL
       THEN /\ gil' = 0
            /\ pc' = [pc EXCEPT ![t] = [at |-> "syscalls", flushres |-> 0]]
       ELSE /\ gil' = gil
            /\ pc' = [pc EXCEPT ![t] = [at |-> "after", flushres |-> 0]]
    /\ UNCHANGED <<ret, sbfVars, directVars>>

\* Bitmap.flush, thread t inside the block: the C flush, whose msync and
\* fsync go as o and return whenever the kernel is done
FlushSyscalls(t, o) ==
    /\ pc[t].at = "syscalls"
    /\ SysCallsFail(bm, o, "ok")
    /\ \E r \in {flush(bm, Env, o)} :
           /\ file' = r.file
           /\ durable' = r.durable
           /\ pc' = [pc EXCEPT ![t] = [at |-> "acquire", flushres |-> r.res]]
           /\ ret' = Ret("syscalls", NoKey, t, r.res, "none", r.calls, FALSE)
    /\ UNCHANGED <<gil, bm, bf, passed, added, trueAdds, initCount, saved,
                   sbfVars>>

\* Bitmap.flush, thread t leaves the block: it waits for the lock
FlushReacquire(t) ==
    /\ pc[t].at = "acquire"
    /\ gil = 0
    /\ gil' = t
    /\ pc' = [pc EXCEPT ![t].at = "after"]
    /\ UNCHANGED <<ret, sbfVars, directVars>>

\* Bitmap.flush, thread t after the block: OSError if the C flush failed,
\* else fileobj.flush() and return
FlushEnd(t) ==
    /\ pc[t].at = "after"
    /\ gil = t
    /\ pc' = [pc EXCEPT ![t] = Running]
    /\ ret' = Ret("bm_flush", NoKey, t, 0,
                  IF pc[t].flushres = -1 THEN "OSError" ELSE "none", <<>>,
                  bm.mmap = NULL)
    /\ UNCHANGED <<gil, sbfVars, directVars>>

\* the interpreter makes the running thread t give up the lock
YieldLock(t) ==
    /\ gil = t
    /\ pc[t] = Running
    /\ gil' = 0
    /\ UNCHANGED <<pc, ret, sbfVars, directVars>>

\* thread t, waiting to run Python code, takes the free lock
TakeLock(t) ==
    /\ gil = 0
    /\ pc[t] = Running
    /\ gil' = t
    /\ UNCHANGED <<pc, ret, sbfVars, directVars>>

\* a step of thread t
ThreadStep(t) ==
    \/ \E named \in BOOLEAN, private \in BOOLEAN :
          ThreadNewBitmap(t, named, private)
    \/ \E idx \in 0..7, val \in 0..1 : ThreadSetItem(t, idx, val)
    \/ FlushBegin(t)
    \/ \E o \in FlushOutcomes : FlushSyscalls(t, o)
    \/ FlushReacquire(t)
    \/ FlushEnd(t)
    \/ YieldLock(t)
    \/ TakeLock(t)

NextThreads == \E t \in Threads : ThreadStep(t)

SpecThreads == Init /\ [][NextThreads]_vars

\* C22: while a thread is inside the msync and fsync of Bitmap.flush it does
\* not hold the global lock and every other thread has a step it can take,
\* and a thread holds the lock from the end of the syscalls' block until
\* flush has returned or raised
C22_FlushReleasesLock ==
    /\ [](\A t \in Threads :
            pc[t].at = "syscalls" =>
                /\ gil # t
                /\ \A u \in Threads \ {t} : ENABLED ThreadStep(u))
    /\ [](\A t \in Threads : pc[t].at = "after" => gil = t)
    /\ [][\A t \in Threads :
            (pc[t].at # "run" /\ pc'[t].at = "run") =>
                /\ pc[t].at = "after"
                /\ ret'.op = "bm_flush"
                /\ gil = t
                /\ gil' = t]_vars

\* thread 2 set a bit of the map while thread 1 was inside the syscalls
C22_OtherThreadRan ==
    /\ pc[1].at = "syscalls"
    /\ gil = 2
    /\ ret.op = "bm_set"
    /\ bm.fileno # ANON_FD

\* C27: every BloomFilter that was constructed has offset >= 1, so that the
\* hash mod offset of add and contains is defined
C27_OffsetPositive ==
    bf.exists => bf.offset >= 1 /\ bf.offset = bf.bitmap_size \div bf.k_num

\* the bit that hash slot j of key addresses in the filter f
SlotBit(f, key, j) ==
    j * f.offset + WMod(ComputeHashes(key, f.k_num)[j + 1], f.offset)

\* add(key) on the live filter bf went from bm to bm' as partitioning says:
\* slot j addresses a bit of [j * offset, (j + 1) * offset), below the
\* number of filter bits; the bits set afterwards are those set before and
\* the k addressed ones, one in each partition; the header bytes are as
\* they were
AddedByPartition(key) ==
    /\ bf.offset >= 1
    /\ ret'.exc = "none"
    /\ ret'.val = TRUE
    /\ bm'.size = bm.size
    /\ \E bits \in {{SlotBit(bf, key, j) : j \in 0..(bf.k_num - 1)}} :
          /\ \A j \in 0..(bf.k_num - 1) :
                \E a \in {SlotBit(bf, key, j)} :
                    /\ a >= j * bf.offset
                    /\ a < (j + 1) * bf.offset
                    /\ a < bf.bitmap_size
                    /\ bits \cap (j * bf.offset)..((j + 1) * bf.offset - 1)
                           = {a}
          /\ \A i \in 0..(bf.bitmap_size - 1) :
                BitmapGet(bm', i) = 1 <=> (BitmapGet(bm, i) = 1 \/ i \in bits)
    /\ SubSeq(bm'.mmap, bf.bitmap_size \div 8 + 1, bm.size) =
           SubSeq(bm.mmap, bf.bitmap_size \div 8 + 1, bm.size)

\* C23: on every constructed BloomFilter that is open, add of a key sets
\* exactly the bit j * offset + (hash[j] mod offset) of each of the k
\* disjoint partitions and leaves the 12 header bytes alone
C23_Partitioning ==
    [][(ret'.op = "add" /\ ret'.arg = 0 /\ Live(bf)) =>
          AddedByPartition(ret'.key)]_vars

\* the same on the filters whose offset is not 0
C23_PartitioningWhenOffsetPositive ==
    [][(ret'.op = "add" /\ ret'.arg = 0 /\ Live(bf) /\ bf.offset >= 1) =>
          AddedByPartition(ret'.key)]_vars

\* C26: on every filter and for every key that contains reports absent,
\* add with check_first and add without it both return True and give the
\* same filter, count and Bitmap, and the scratch buffer that the lookup of
\* add with check_first left holds all the hashes of the key
C26_CheckFirstAddsTheSame ==
    bf.exists =>
        \A key \in Keys :
            \A c \in {BloomContains(bf, bm, key)} :
                (c.exc = "none" /\ ~c.val) =>
                    \E r1 \in {BloomAdd(bf, bm, key, 1)},
                       r0 \in {BloomAdd(bf, bm, key, 0)} :
                        /\ r1 = r0
                        /\ r1.exc = "none"
                        /\ r1.val = TRUE
                        /\ r1.bf.count = bf.count + 1
                        /\ r1.bf.hashes = ComputeHashes(key, bf.k_num)
                        /\ Len(r1.bf.hashes) >= bf.k_num
                        /\ \A j \in 0..(bf.k_num - 1) :
                               BitmapGet(r1.bm, SlotBit(bf, key, j)) = 1

\* add with check_first added the first key of a filter with five hashes:
\* the lookup returned at slot 0, and the bits of all five slots are set
C26_AddedAfterEarlyReturn ==
    /\ ret.op = "add"
    /\ ret.arg = 1
    /\ ret.val = TRUE
    /\ bf.k_num = 5
    /\ bf.count = 1
    /\ initCount = 0
    /\ \A j \in 0..(bf.k_num - 1) :
           BitmapGet(bm, SlotBit(bf, ret.key, j)) = 1

\* the scratch buffer slots with those at index k and above overwritten
SlotsBelow(slots, k) ==
    [i \in 1..Len(slots) |-> IF i <= k THEN slots[i] ELSE ToWord(0)]

====
